---- MODULE Spec2Model ----
(***************************************************************************)
(* State-machine model of course_db_hhApi: the DBManager repository and    *)
(* query engine (src/src/database/db_manager.py) over a PostgreSQL store   *)
(* with the schema of DBManager.create_tables.                             *)
(*                                                                         *)
(* Every public method of DBManager is one action.  The method body is a   *)
(* pure operator of the same name that takes the store and the connection  *)
(* bookkeeping before the call plus the environment's choices (the fault   *)
(* injected, the physical row order) and yields the return value, the      *)
(* store after the call and the connections left open.                     *)
(*                                                                         *)
(* Numbers: salaries are integers.  A representative salary is kept as     *)
(* twice its value (it is a multiple of 1/2) and a numeric(10,2) value as  *)
(* the pair whole/cents, so every computation stays inside 32-bit          *)
(* integers.  The column created_at (set by the store's clock, never by a  *)
(* payload) is left out.                                                   *)
(*                                                                         *)
(* The HeadHunter client (src/src/api/hh_api.py) is modelled the same way: *)
(* get_employer and get_vacancies_by_employer are operators over the       *)
(* responses the upstream serves, one per request, and JSON values are     *)
(* records tagged with their type.  The log of a client call lists its     *)
(* requests, its sleeps and the exception it raised, if any.               *)
(***************************************************************************)
EXTENDS Integers, Sequences, FiniteSets, TLC

VARIABLES
  schema,       \* names of the tables and indexes that exist in the database
  employers,    \* rows of table employers
  vacancies,    \* rows of table vacancies
  connection,   \* DBManager.connection when the last call returned
  open_conns,   \* connections opened by the last call and still open at its return
  call,         \* the last call: [op, arg, fault]
  ret,          \* what the last call returned ("raise": it raised)
  log,          \* SQL statements the last call issued, in order
  upserted_employers,  \* history: employer ids upserted and not cleared or deleted since
  upserted_vacancies   \* history: vacancy ids upserted and not cleared or deleted since

vars == <<schema, employers, vacancies, connection, open_conns, call, ret, log,
          upserted_employers, upserted_vacancies>>

None == "None"      \* Python None (SQL NULL) in a text column or a return value
NULL == <<>>        \* SQL NULL in a numeric column; the number n is <<n>>
Some(n) == <<n>>
NoConnection == 0   \* DBManager.connection = None; open connections are 1, 2, ...

----------------------------------------------------------------------------
(* Bounds of the model *)

MaxEmployerId == 2
MaxVacancyId == 1

EmployerIds == 1..MaxEmployerId
VacancyIds == 1..MaxVacancyId

(* Two payload contents per id: every non-key column differs between them. *)
Versions == {"a", "b"}

----------------------------------------------------------------------------
(* Payloads: the dictionaries handed to insert_employer / insert_vacancy *)

employer_data(id, ver) ==
  [id |-> id,
   name |-> IF ver = "null" THEN None ELSE "company-" \o ver,
   url |-> "https://hh.ru/employer/" \o ver,
   open_vacancies |-> IF ver = "a" THEN 10 ELSE 20,
   description |-> "about-" \o ver]

vacancy_data(id, emp, ver) ==
  [id |-> id,
   employer_id |-> emp,
   name |-> "job-" \o ver,
   salary_from |-> IF ver = "a" THEN Some(100) ELSE NULL,
   salary_to |-> IF ver = "a" THEN Some(200) ELSE Some(300),
   currency |-> IF ver = "a" THEN "RUR" ELSE "USD",
   url |-> "https://hh.ru/vacancy/" \o ver,
   experience |-> "exp-" \o ver,
   employment |-> "emp-" \o ver,
   schedule |-> "sch-" \o ver,
   requirements |-> "req-" \o ver,
   responsibility |-> "resp-" \o ver,
   published_at |-> "2024-01-0" \o (IF ver = "a" THEN "1" ELSE "2")]

(* An employer payload without a name (get_employer passes data.get('name')) *)
EmployerPayloads == {employer_data(i, v) : i \in EmployerIds, v \in Versions \cup {"null"}}
VacancyPayloads == {vacancy_data(i, e, v) : i \in VacancyIds, e \in EmployerIds, v \in Versions}

----------------------------------------------------------------------------
(* The connection bookkeeping of one call: DBManager.connection, the       *)
(* connections open, and how many the call has opened so far.              *)

NewCall == [connection |-> NoConnection, open |-> {}, opened |-> 0]

connect(cs, ok) ==
  IF ok
    THEN [connection |-> cs.opened + 1,
          open |-> cs.open \cup {cs.opened + 1},
          opened |-> cs.opened + 1]
    ELSE cs

close(cs) ==
  IF cs.connection # NoConnection
    THEN [connection |-> NoConnection, open |-> cs.open \ {cs.connection}, opened |-> cs.opened]
    ELSE cs

----------------------------------------------------------------------------
(* The database: DB is the committed state; a transaction works on a copy. *)

DB == [schema |-> schema, employers |-> employers, vacancies |-> vacancies]

SchemaObjects ==
  {"employers", "vacancies", "idx_vacancies_employer_id", "idx_vacancies_salary_from",
   "idx_vacancies_salary_to", "idx_vacancies_name"}

Ok(db) == [ok |-> TRUE, db |-> db]
Error(db) == [ok |-> FALSE, db |-> db]    \* a failed statement changes nothing

employer_ids(db) == {e.employer_id : e \in db.employers}
vacancy_ids(db) == {v.vacancy_id : v \in db.vacancies}

(* CREATE TABLE / CREATE INDEX ... IF NOT EXISTS *)
CreateIfNotExists(db, name) == Ok([db EXCEPT !.schema = @ \cup {name}])

employer_row(d) ==
  [employer_id |-> d.id, name |-> d.name, url |-> d.url,
   open_vacancies |-> d.open_vacancies, description |-> d.description]

(* faulty variant: a plain INSERT that ignores the conflict on employer_id *)
UpsertEmployerDuplicates(db, d) ==
  IF "employers" \notin db.schema \/ d.name = None
    THEN Error(db)
    ELSE Ok([db EXCEPT !.employers = @ \cup {employer_row(d)}])

(* INSERT INTO employers ... ON CONFLICT (employer_id) DO UPDATE SET ... *)
UpsertEmployer(db, d) ==
  IF "employers" \notin db.schema \/ d.name = None
    THEN Error(db)                          \* no table, or NOT NULL violated
    ELSE IF d.id \in employer_ids(db)
      THEN Ok([db EXCEPT !.employers =
                 {IF e.employer_id = d.id
                    THEN [e EXCEPT !.name = d.name,
                                   !.url = d.url,
                                   !.open_vacancies = d.open_vacancies,
                                   !.description = d.description]
                    ELSE e : e \in @}])
      ELSE Ok([db EXCEPT !.employers = @ \cup {employer_row(d)}])

vacancy_row(d) ==
  [vacancy_id |-> d.id, employer_id |-> d.employer_id, name |-> d.name,
   salary_from |-> d.salary_from, salary_to |-> d.salary_to, currency |-> d.currency,
   url |-> d.url, experience |-> d.experience, employment |-> d.employment,
   schedule |-> d.schedule, requirements |-> d.requirements,
   responsibility |-> d.responsibility, published_at |-> d.published_at]

(* INSERT INTO vacancies ... ON CONFLICT (vacancy_id) DO UPDATE SET ...     *)
(* The SET list names every payload column but employer_id.  The foreign    *)
(* key is checked for a row that is inserted; the conflict branch leaves    *)
(* employer_id as it is, so there is nothing to check.                      *)
UpsertVacancy(db, d) ==
  IF "vacancies" \notin db.schema \/ d.name = None
    THEN Error(db)
    ELSE IF d.id \in vacancy_ids(db)
      THEN Ok([db EXCEPT !.vacancies =
                 {IF v.vacancy_id = d.id
                    THEN [v EXCEPT !.name = d.name,
                                   !.salary_from = d.salary_from,
                                   !.salary_to = d.salary_to,
                                   !.currency = d.currency,
                                   !.url = d.url,
                                   !.experience = d.experience,
                                   !.employment = d.employment,
                                   !.schedule = d.schedule,
                                   !.requirements = d.requirements,
                                   !.responsibility = d.responsibility,
                                   !.published_at = d.published_at]
                    ELSE v : v \in @}])
      ELSE IF d.employer_id \notin employer_ids(db)
        THEN Error(db)                      \* REFERENCES employers(employer_id)
        ELSE Ok([db EXCEPT !.vacancies = @ \cup {vacancy_row(d)}])

(* DELETE FROM vacancies *)
DeleteVacancies(db) ==
  IF "vacancies" \notin db.schema THEN Error(db) ELSE Ok([db EXCEPT !.vacancies = {}])

(* faulty variant: the foreign key without ON DELETE CASCADE *)
DeleteEmployersNoCascade(db, ids) ==
  IF "employers" \notin db.schema
    THEN Error(db)
    ELSE Ok([db EXCEPT !.employers = {e \in @ : e.employer_id \notin ids}])

(* DELETE FROM employers [WHERE employer_id IN ids], with ON DELETE CASCADE *)
DeleteEmployers(db, ids) ==
  IF "employers" \notin db.schema
    THEN Error(db)
    ELSE Ok([db EXCEPT !.employers = {e \in @ : e.employer_id \notin ids},
                       !.vacancies = {v \in @ : v.employer_id \notin ids}])

Exec(db, stmt) ==
  CASE stmt.sql = "CREATE" -> CreateIfNotExists(db, stmt.arg)
    [] stmt.sql = "INSERT INTO employers" -> UpsertEmployer(db, stmt.arg)
    [] stmt.sql = "INSERT INTO vacancies" -> UpsertVacancy(db, stmt.arg)
    [] stmt.sql = "DELETE FROM vacancies" -> DeleteVacancies(db)
    [] stmt.sql = "DELETE FROM employers" -> DeleteEmployers(db, employer_ids(db))

Sql(s, a) == [sql |-> s, arg |-> a]

----------------------------------------------------------------------------
(* Faults the environment injects into one call *)

WriteFaults == {"none", "connect", "execute1", "execute2", "commit", "lost"}

(* the statement at which cursor.execute raises (0: none) *)
FaultStmt(fault) ==
  CASE fault \in {"execute1", "lost"} -> 1
    [] fault = "execute2" -> 2
    [] OTHER -> 0

(* cursor.execute for stmts[1..], on a working copy, until one raises *)
RECURSIVE RunStmts(_, _, _, _)
RunStmts(work, stmts, k, fault) ==
  IF k > Len(stmts)
    THEN [ok |-> TRUE, db |-> work, log |-> <<>>]
    ELSE LET r == IF FaultStmt(fault) = k THEN Error(work) ELSE Exec(work, stmts[k])
         IN IF ~r.ok
              THEN [ok |-> FALSE, db |-> work, log |-> <<stmts[k].sql>>]
              ELSE LET rest == RunStmts(r.db, stmts, k + 1, fault)
                   IN [rest EXCEPT !.log = <<stmts[k].sql>> \o @]

(* faulty variant: the work of the failed transaction stays *)
rollback_keeps(before, work) == work

(* connection.rollback(): the store is what it was before the transaction *)
rollback(before, work) == before

(* The body shared by create_tables, insert_employer, insert_vacancy and    *)
(* clear_tables: connect or return False; execute; commit and return True;  *)
(* on an exception roll back and return False; close in every case.  When   *)
(* the connection is lost, rollback() raises too and the call raises; the   *)
(* server aborts the transaction.                                           *)
Transaction(db, cs, stmts, fault) ==
  IF fault = "connect"
    THEN [ret |-> "False", db |-> db, log |-> <<>>, cs |-> connect(cs, FALSE)]
    ELSE LET c1 == connect(cs, TRUE)
             run == RunStmts(db, stmts, 1, fault)
         IN IF run.ok /\ fault # "commit"
              THEN [ret |-> "True", db |-> run.db,
                    log |-> run.log \o <<"COMMIT">>, cs |-> close(c1)]
              ELSE IF fault = "lost"
                THEN [ret |-> "raise", db |-> db,
                      log |-> run.log, cs |-> close(c1)]
                ELSE [ret |-> "False", db |-> rollback(db, run.db),
                      log |-> run.log \o (IF run.ok THEN <<"COMMIT">> ELSE <<>>)
                                      \o <<"ROLLBACK">>,
                      cs |-> close(c1)]

CreateStatements ==
  <<Sql("CREATE", "employers"), Sql("CREATE", "vacancies"),
    Sql("CREATE", "idx_vacancies_employer_id"), Sql("CREATE", "idx_vacancies_salary_from"),
    Sql("CREATE", "idx_vacancies_salary_to"), Sql("CREATE", "idx_vacancies_name")>>

create_tables(db, cs, fault) == Transaction(db, cs, CreateStatements, fault)

insert_employer(db, cs, employer, fault) ==
  Transaction(db, cs, <<Sql("INSERT INTO employers", employer)>>, fault)

insert_vacancy(db, cs, vacancy, fault) ==
  Transaction(db, cs, <<Sql("INSERT INTO vacancies", vacancy)>>, fault)

(* faulty variant: employers deleted first *)
ClearStatementsSwapped ==
  <<Sql("DELETE FROM employers", None), Sql("DELETE FROM vacancies", None)>>

ClearStatements ==
  <<Sql("DELETE FROM vacancies", None), Sql("DELETE FROM employers", None)>>

clear_tables(db, cs, fault) == Transaction(db, cs, ClearStatements, fault)

----------------------------------------------------------------------------
(* Actions: one per public method *)

Init ==
  /\ schema = {}
  /\ employers = {}
  /\ vacancies = {}
  /\ connection = NoConnection
  /\ open_conns = {}
  /\ call = [op |-> "__init__", arg |-> None, fault |-> "none"]
  /\ ret = None
  /\ log = <<>>
  /\ upserted_employers = {}
  /\ upserted_vacancies = {}

(* the effect of a call that ended with outcome out *)
Returns(op, arg, fault, out) ==
  /\ schema' = out.db.schema
  /\ employers' = out.db.employers
  /\ vacancies' = out.db.vacancies
  /\ connection' = out.cs.connection
  /\ open_conns' = out.cs.open
  /\ call' = [op |-> op, arg |-> arg, fault |-> fault]
  /\ ret' = out.ret
  /\ log' = out.log

CreateTables ==
  \E fault \in WriteFaults :
    \E out \in {create_tables(DB, NewCall, fault)} :
      /\ Returns("create_tables", None, fault, out)
      /\ UNCHANGED <<upserted_employers, upserted_vacancies>>

InsertEmployer ==
  \E d \in EmployerPayloads, fault \in WriteFaults \ {"execute2"} :
    \E out \in {insert_employer(DB, NewCall, d, fault)} :
      /\ Returns("insert_employer", d, fault, out)
      /\ upserted_employers' =
           IF out.ret = "True" THEN upserted_employers \cup {d.id} ELSE upserted_employers
      /\ UNCHANGED upserted_vacancies

InsertVacancy ==
  \E d \in VacancyPayloads, fault \in WriteFaults \ {"execute2"} :
    \E out \in {insert_vacancy(DB, NewCall, d, fault)} :
      /\ Returns("insert_vacancy", d, fault, out)
      /\ upserted_vacancies' =
           IF out.ret = "True" THEN upserted_vacancies \cup {d.id} ELSE upserted_vacancies
      /\ UNCHANGED upserted_employers

ClearTables ==
  \E fault \in WriteFaults :
    \E out \in {clear_tables(DB, NewCall, fault)} :
      /\ Returns("clear_tables", None, fault, out)
      /\ upserted_employers' = IF out.ret = "True" THEN {} ELSE upserted_employers
      /\ upserted_vacancies' = IF out.ret = "True" THEN {} ELSE upserted_vacancies

Next == CreateTables \/ InsertEmployer \/ InsertVacancy \/ ClearTables

Spec == Init /\ [][Next]_vars

(* DELETE FROM employers WHERE employer_id = id, issued against the schema  *)
(* of create_tables by any client of the database; the vacancies of the     *)
(* employer go with it (ON DELETE CASCADE).                                 *)
delete_employer(db, id) ==
  LET r == DeleteEmployers(db, {id})
  IN [ret |-> IF r.ok THEN "True" ELSE "False", db |-> r.db,
      log |-> IF r.db.vacancies # db.vacancies
                THEN <<"DELETE FROM employers", "ON DELETE CASCADE">>
                ELSE <<"DELETE FROM employers">>,
      cs |-> NewCall]

DeleteEmployer ==
  \E id \in EmployerIds :
    \E out \in {delete_employer(DB, id)} :
      /\ Returns("delete_employer", id, "none", out)
      /\ upserted_employers' = upserted_employers \cap employer_ids(out.db)
      /\ upserted_vacancies' = upserted_vacancies \cap vacancy_ids(out.db)

NextCascade == Next \/ DeleteEmployer

SpecCascade == Init /\ [][NextCascade]_vars

----------------------------------------------------------------------------
(* The query engine.  A query takes the physical order of the rows as an    *)
(* input: SQL leaves the order of rows that tie under ORDER BY open.        *)

QueryFaults == {"none", "connect", "execute1"}

(* the Python float built from a numeric(10,2): whole + cents / 100 *)
Float(whole, cents) == [whole |-> whole, cents |-> cents]
Zero == Float(0, 0)

(* a numeric(10,2) holds absolute values below 10^8 *)
NumericLimit == 100000000

HasSalary(v) == v.salary_from # NULL \/ v.salary_to # NULL

(* faulty variant: no midpoint, salary_from wins *)
calculated_salary_from_only(v) ==
  IF v.salary_from # NULL THEN 2 * v.salary_from[1] ELSE 2 * v.salary_to[1]

(* CASE WHEN salary_from IS NOT NULL AND salary_to IS NOT NULL              *)
(*        THEN (salary_from::float + salary_to::float) / 2.0                *)
(*      WHEN salary_from IS NOT NULL THEN salary_from::float                *)
(*      WHEN salary_to IS NOT NULL THEN salary_to::float END, times two     *)
calculated_salary(v) ==
  IF v.salary_from # NULL /\ v.salary_to # NULL
    THEN v.salary_from[1] + v.salary_to[1]
    ELSE IF v.salary_from # NULL
      THEN 2 * v.salary_from[1]
      ELSE 2 * v.salary_to[1]

RECURSIVE SumSalaries(_)
SumSalaries(S) ==
  IF S = {}
    THEN 0
    ELSE LET v == CHOOSE x \in S : TRUE
         IN calculated_salary(v) + SumSalaries(S \ {v})

(* (sum2 / 2 / n)::numeric(10,2): rounded half up to cents; an error when   *)
(* the rounded value does not fit                                           *)
Numeric_10_2(sum2, n) ==
  LET q == sum2 \div (2 * n)
      r == sum2 % (2 * n)
      c == (200 * r + 2 * n) \div (4 * n)
      whole == IF c = 100 THEN q + 1 ELSE q
      cents == IF c = 100 THEN 0 ELSE c
  IN IF whole >= NumericLimit
       THEN [ok |-> FALSE, value |-> NULL]
       ELSE [ok |-> TRUE, value |-> Some(Float(whole, cents))]

(* SELECT AVG(calculated_salary)::numeric(10,2) FROM salary_data ...;       *)
(* AVG over no rows is NULL                                                 *)
SelectAvgSalary(db) ==
  LET salary_data == {v \in db.vacancies : HasSalary(v)}
      n == Cardinality(salary_data)
  IN IF "vacancies" \notin db.schema
       THEN [ok |-> FALSE, value |-> NULL]
       ELSE IF n = 0
         THEN [ok |-> TRUE, value |-> NULL]
         ELSE Numeric_10_2(SumSalaries(salary_data), n)

get_avg_salary(db, cs, fault) ==
  IF fault = "connect"
    THEN [ret |-> Zero, db |-> db, log |-> <<>>, cs |-> connect(cs, FALSE)]
    ELSE LET c1 == connect(cs, TRUE)
             result == IF fault = "execute1" THEN [ok |-> FALSE, value |-> NULL]
                                             ELSE SelectAvgSalary(db)
         IN [ret |-> IF result.ok /\ result.value # NULL /\ result.value[1] # Zero
                       THEN result.value[1]
                       ELSE Zero,
             db |-> db, log |-> <<"SELECT AVG">>, cs |-> close(c1)]

(* faulty variant: >= instead of > *)
GreaterOrEqual(salary2, avg) ==
  LET d == salary2 - 2 * avg.whole
  IN d >= 2 \/ (d = 1 /\ avg.cents <= 50) \/ (d = 0 /\ avg.cents = 0)

(* avg_vacancy_salary > %s, the left side kept as twice its value *)
GreaterThan(salary2, avg) ==
  LET d == salary2 - 2 * avg.whole
  IN d >= 2 \/ (d = 1 /\ avg.cents < 50)

(* ORDER BY key DESC over a set of [key, pos, row]: rows that tie come in   *)
(* their physical order pos                                                 *)
RECURSIVE OrderByDesc(_)
OrderByDesc(T) ==
  IF T = {}
    THEN <<>>
    ELSE LET m == CHOOSE t \in T :
                    \A u \in T : t.key > u.key \/ (t.key = u.key /\ t.pos <= u.pos)
         IN <<m.row>> \o OrderByDesc(T \ {m})

Limit(rows, n) == IF Len(rows) <= n THEN rows ELSE SubSeq(rows, 1, n)

employer_of(db, v) == CHOOSE e \in db.employers : e.employer_id = v.employer_id

(* JOIN employers e ON v.employer_id = e.employer_id *)
Joined(db) == {v \in db.vacancies : v.employer_id \in employer_ids(db)}

(* SELECT company_name, name, salary_from, salary_to, currency, url *)
VacancyTuple(db, v) ==
  <<employer_of(db, v).name, v.name, v.salary_from, v.salary_to, v.currency, v.url>>

SelectHigherSalary(db, avg_salary, vorder) ==
  IF {"vacancies", "employers"} \subseteq db.schema
    THEN [ok |-> TRUE,
          value |-> OrderByDesc({[key |-> calculated_salary(v), pos |-> vorder[v.vacancy_id],
                                  row |-> VacancyTuple(db, v)] :
                                 v \in {x \in Joined(db) :
                                          /\ HasSalary(x)
                                          /\ GreaterThan(calculated_salary(x), avg_salary)}})]
    ELSE [ok |-> FALSE, value |-> <<>>]

get_vacancies_with_higher_salary(db, cs, avg_fault, fault, vorder) ==
  LET avg == get_avg_salary(db, cs, avg_fault)
  IN IF avg.ret = Zero
       THEN [ret |-> <<>>, db |-> db, log |-> avg.log, cs |-> avg.cs]
       ELSE IF fault = "connect"
         THEN [ret |-> <<>>, db |-> db, log |-> avg.log, cs |-> connect(avg.cs, FALSE)]
         ELSE LET c1 == connect(avg.cs, TRUE)
                  result == IF fault = "execute1" THEN [ok |-> FALSE, value |-> <<>>]
                                                  ELSE SelectHigherSalary(db, avg.ret, vorder)
              IN [ret |-> IF result.ok THEN result.value ELSE <<>>,
                  db |-> db, log |-> avg.log \o <<"SELECT vacancy_salaries">>,
                  cs |-> close(c1)]

(* faulty variant: cut off after two decimals *)
PercentageTruncated(count, total) ==
  Float((count * 100) \div total, (100 * ((count * 100) % total)) \div total)

(* ROUND(count * 100.0 / total, 2), as whole + cents / 100 *)
Percentage(count, total) ==
  LET q == (count * 100) \div total
      r == (count * 100) % total
      c == (200 * r + total) \div (2 * total)
  IN IF c = 100 THEN Float(q + 1, 0) ELSE Float(q, c)

VacancyCount(db, e) == Cardinality({v \in db.vacancies : v.employer_id = e.employer_id})

(* SELECT e.name, COUNT(v.vacancy_id), ROUND(COUNT(v.vacancy_id) * 100.0 /  *)
(* (SELECT COUNT( * ) FROM vacancies), 2) ... ORDER BY vacancy_count DESC    *)
(* LIMIT limit; division by zero is an error                                *)
SelectTopCompanies(db, limit, eorder) ==
  LET total == Cardinality(db.vacancies)
  IN IF ~({"vacancies", "employers"} \subseteq db.schema) \/ (db.employers # {} /\ total = 0)
       THEN [ok |-> FALSE, value |-> <<>>]
       ELSE [ok |-> TRUE,
             value |-> Limit(OrderByDesc({[key |-> VacancyCount(db, e),
                                           pos |-> eorder[e.employer_id],
                                           row |-> <<e.name, VacancyCount(db, e),
                                                     Percentage(VacancyCount(db, e), total)>>] :
                                          e \in db.employers}), limit)]

get_top_companies_by_vacancies(db, cs, limit, fault, eorder) ==
  IF fault = "connect"
    THEN [ret |-> <<>>, db |-> db, log |-> <<>>, cs |-> connect(cs, FALSE)]
    ELSE LET c1 == connect(cs, TRUE)
             result == IF fault = "execute1" THEN [ok |-> FALSE, value |-> <<>>]
                                             ELSE SelectTopCompanies(db, limit, eorder)
         IN [ret |-> IF result.ok THEN result.value ELSE <<>>,
             db |-> db, log |-> <<"SELECT top companies">>, cs |-> close(c1)]

(* SELECT name, COUNT( * ) FROM vacancies GROUP BY name ORDER BY count DESC   *)
(* LIMIT 5; a group stands where its first row stands                       *)
SelectTopPositions(db, vorder) ==
  LET names == {v.name : v \in db.vacancies}
      group(n) == {v \in db.vacancies : v.name = n}
      first(n) == CHOOSE p \in {vorder[v.vacancy_id] : v \in group(n)} :
                    \A v \in group(n) : p <= vorder[v.vacancy_id]
  IN Limit(OrderByDesc({[key |-> Cardinality(group(n)), pos |-> first(n),
                         row |-> <<n, Cardinality(group(n))>>] : n \in names}), 5)

(* the fault of get_statistics itself, or else those of the two nested calls *)
StatisticsFaults ==
  {<<f, "none", "none">> : f \in {"connect", "execute1", "execute2"}}
    \cup {<<"none", a, t>> : a \in QueryFaults, t \in QueryFaults}

(* get_statistics runs its own statements on the cursor of the connection   *)
(* it opened; get_avg_salary and get_top_companies_by_vacancies, called in  *)
(* between, each assign DBManager.connection anew and reset it to None.     *)
get_statistics(db, cs, fault, avg_fault, top_fault, vorder, eorder) ==
  IF fault = "connect"
    THEN [ret |-> << >>, db |-> db, log |-> <<>>, cs |-> connect(cs, FALSE)]
    ELSE LET c1 == connect(cs, TRUE)
         IN IF fault = "execute1" \/ "vacancies" \notin db.schema
              THEN [ret |-> << >>, db |-> db, log |-> <<"SELECT COUNT vacancies">>,
                    cs |-> close(c1)]
              ELSE IF fault = "execute2" \/ "employers" \notin db.schema
                THEN [ret |-> [total_vacancies |-> Cardinality(db.vacancies)], db |-> db,
                      log |-> <<"SELECT COUNT vacancies", "SELECT COUNT employers">>,
                      cs |-> close(c1)]
                ELSE LET avg == get_avg_salary(db, c1, avg_fault)
                         top == get_top_companies_by_vacancies(db, avg.cs, 5, top_fault, eorder)
                     IN [ret |-> [total_vacancies |-> Cardinality(db.vacancies),
                                  total_companies |-> Cardinality(db.employers),
                                  vacancies_with_salary |->
                                    Cardinality({v \in db.vacancies : HasSalary(v)}),
                                  avg_salary |-> avg.ret,
                                  top_positions |-> SelectTopPositions(db, vorder),
                                  top_companies |-> top.ret],
                         db |-> db,
                         log |-> <<"SELECT COUNT vacancies", "SELECT COUNT employers",
                                   "SELECT COUNT with salary">> \o avg.log
                                 \o <<"SELECT top positions">> \o top.log,
                         cs |-> close(top.cs)]

----------------------------------------------------------------------------
(* Stores for the query engine: every vacancy id is absent or holds one of  *)
(* the rows below; both employers are stored.                               *)

MaxStoredVacancies == 3

StoredVacancyIds == 1..MaxStoredVacancies
StoredEmployerIds == {1, 2}

SalaryCases ==
  {[employer_id |-> 1, name |-> "job-a", salary_from |-> Some(100), salary_to |-> Some(200)],
   [employer_id |-> 2, name |-> "job-b", salary_from |-> Some(300), salary_to |-> NULL],
   [employer_id |-> 1, name |-> "job-a", salary_from |-> NULL, salary_to |-> NULL],
   [employer_id |-> 2, name |-> "job-c", salary_from |-> NULL, salary_to |-> Some(250)],
   [employer_id |-> 2, name |-> "job-c", salary_from |-> Some(200000000), salary_to |-> NULL]}

stored_vacancy(id, c) ==
  [vacancy_row(vacancy_data(id, c.employer_id, "a"))
     EXCEPT !.name = c.name, !.salary_from = c.salary_from, !.salary_to = c.salary_to,
            !.url = "https://hh.ru/vacancy/" \o ToString(id)]

(* physical orders of the rows with ids 1..n: by id, ascending or descending *)
PhysicalOrders(S) == {[x \in S |-> x], [x \in S |-> Cardinality(S) + 1 - x]}

InitQuery ==
  /\ schema = SchemaObjects
  /\ employers = {employer_row(employer_data(e, IF e = 1 THEN "a" ELSE "b")) :
                    e \in StoredEmployerIds}
  /\ \E ids \in SUBSET StoredVacancyIds :
       \E c \in [ids -> SalaryCases] :
         vacancies = {stored_vacancy(id, c[id]) : id \in ids}
  /\ connection = NoConnection
  /\ open_conns = {}
  /\ call = [op |-> "__init__", arg |-> None, fault |-> "none"]
  /\ ret = None
  /\ log = <<>>
  /\ upserted_employers = employer_ids(DB)
  /\ upserted_vacancies = vacancy_ids(DB)

GetAvgSalary ==
  \E fault \in QueryFaults :
    \E out \in {get_avg_salary(DB, NewCall, fault)} :
      /\ Returns("get_avg_salary", None, fault, out)
      /\ UNCHANGED <<upserted_employers, upserted_vacancies>>

GetVacanciesWithHigherSalary ==
  \E avg_fault \in QueryFaults, fault \in QueryFaults, vorder \in PhysicalOrders(StoredVacancyIds) :
    \E out \in {get_vacancies_with_higher_salary(DB, NewCall, avg_fault, fault, vorder)} :
      /\ Returns("get_vacancies_with_higher_salary", None, <<avg_fault, fault>>, out)
      /\ UNCHANGED <<upserted_employers, upserted_vacancies>>

GetTopCompaniesByVacancies ==
  \E limit \in {1, 10}, fault \in QueryFaults, eorder \in PhysicalOrders(StoredEmployerIds) :
    \E out \in {get_top_companies_by_vacancies(DB, NewCall, limit, fault, eorder)} :
      /\ Returns("get_top_companies_by_vacancies", limit, fault, out)
      /\ UNCHANGED <<upserted_employers, upserted_vacancies>>

GetStatistics ==
  \E f \in StatisticsFaults,
     vorder \in PhysicalOrders(StoredVacancyIds), eorder \in PhysicalOrders(StoredEmployerIds) :
    \E out \in {get_statistics(DB, NewCall, f[1], f[2], f[3], vorder, eorder)} :
      /\ Returns("get_statistics", None, f, out)
      /\ UNCHANGED <<upserted_employers, upserted_vacancies>>

NextQuery ==
  \/ GetAvgSalary
  \/ GetVacanciesWithHigherSalary
  \/ GetTopCompaniesByVacancies
  \/ GetStatistics

SpecQuery == InitQuery /\ [][NextQuery]_vars

----------------------------------------------------------------------------
(* Text.  A column value is a string; the characters of a title or of a     *)
(* search text are a sequence of one-character strings.                     *)

RECURSIVE Str(_)
Str(chars) == IF chars = <<>> THEN "" ELSE chars[1] \o Str(Tail(chars))

(* the titles of the model, as characters *)
KeywordTitles ==
  {<<"A", "b">>, <<"b", " ", "A">>, <<"a">>, <<"B">>, <<"a", "_", "b">>,
   <<"a", "c", "b">>, <<"c">>}

JobTitles ==
  {<<"j", "o", "b", "-", "a">>, <<"j", "o", "b", "-", "b">>, <<"j", "o", "b", "-", "c">>}

Chars(name) == CHOOSE t \in KeywordTitles \cup JobTitles : Str(t) = name

(* str.lower() and LOWER(): the same mapping on the letters of the model *)
LowerChar(c) ==
  CASE c = "A" -> "a"
    [] c = "B" -> "b"
    [] OTHER -> c

lower(s) == [i \in 1..Len(s) |-> LowerChar(s[i])]

IsSpace(c) == c = " "

(* str.strip() *)
RECURSIVE strip(_)
strip(s) ==
  IF s = <<>>
    THEN s
    ELSE IF IsSpace(s[1])
      THEN strip(Tail(s))
      ELSE IF IsSpace(s[Len(s)])
        THEN strip(SubSeq(s, 1, Len(s) - 1))
        ELSE s

(* str.split(): the maximal runs of characters that are not whitespace; cur *)
(* is the run being read                                                    *)
RECURSIVE SplitFrom(_, _)
SplitFrom(s, cur) ==
  IF s = <<>>
    THEN IF cur = <<>> THEN <<>> ELSE <<cur>>
    ELSE IF IsSpace(s[1])
      THEN (IF cur = <<>> THEN <<>> ELSE <<cur>>) \o SplitFrom(Tail(s), <<>>)
      ELSE SplitFrom(Tail(s), Append(cur, s[1]))

split(s) == SplitFrom(s, <<>>)

(* s LIKE p: % stands for any run of characters, _ for any one character *)
RECURSIVE Like(_, _)
Like(s, p) ==
  IF p = <<>>
    THEN s = <<>>
    ELSE IF p[1] = "%"
      THEN Like(s, Tail(p)) \/ (s # <<>> /\ Like(Tail(s), p))
      ELSE /\ s # <<>>
           /\ (p[1] = "_" \/ p[1] = s[1])
           /\ Like(Tail(s), Tail(p))

(* ORDER BY on text: the strings of the model in ascending order of the     *)
(* collation (here byte order)                                              *)
Collation ==
  <<"A", "Ab", "B", "a", "a_b", "acb", "b A", "c",
    "company-a", "company-b", "company-c", "job-a", "job-b", "job-c">>

Rank(name) == CHOOSE i \in 1..Len(Collation) : Collation[i] = name

(* ORDER BY e.name, v.name as a key for OrderByDesc *)
ByCompanyAndTitle(db, v) ==
  0 - (Rank(employer_of(db, v).name) * (Len(Collation) + 1) + Rank(v.name))

(* SELECT ... FROM vacancies v JOIN employers e ... WHERE LOWER(v.name)     *)
(* LIKE %s [AND ...] ORDER BY e.name, v.name, with params '%kw%'            *)
SelectWithKeywords(db, keywords, vorder) ==
  IF {"vacancies", "employers"} \subseteq db.schema
    THEN [ok |-> TRUE,
          value |-> OrderByDesc({[key |-> ByCompanyAndTitle(db, v),
                                  pos |-> vorder[v.vacancy_id],
                                  row |-> VacancyTuple(db, v)] :
                                 v \in {x \in Joined(db) :
                                          \A i \in 1..Len(keywords) :
                                            Like(lower(Chars(x.name)),
                                                 <<"%">> \o keywords[i] \o <<"%">>)}})]
    ELSE [ok |-> FALSE, value |-> <<>>]

get_vacancies_with_keyword(db, cs, keyword, fault, vorder) ==
  IF keyword = <<>> \/ strip(keyword) = <<>>
    THEN [ret |-> <<>>, db |-> db, log |-> <<>>, cs |-> cs]
    ELSE IF fault = "connect"
      THEN [ret |-> <<>>, db |-> db, log |-> <<>>, cs |-> connect(cs, FALSE)]
      ELSE LET c1 == connect(cs, TRUE)
               keywords == split(lower(strip(keyword)))
               result == IF fault = "execute1" THEN [ok |-> FALSE, value |-> <<>>]
                                               ELSE SelectWithKeywords(db, keywords, vorder)
           IN [ret |-> IF result.ok THEN result.value ELSE <<>>,
               db |-> db, log |-> <<"SELECT with keyword">>, cs |-> close(c1)]

(* Stores for the keyword search: every vacancy id is absent or holds a     *)
(* vacancy with one of the titles; vacancy 1 is of employer 1, the others   *)
(* of employer 2.                                                           *)

MaxTitledVacancies == 2

TitledVacancyIds == 1..MaxTitledVacancies

titled_vacancy(id, t) ==
  stored_vacancy(id, [employer_id |-> IF id = 1 THEN 1 ELSE 2, name |-> Str(t),
                      salary_from |-> Some(100), salary_to |-> NULL])

(* the search texts of the model *)
Keywords ==
  {<<>>, <<" ">>, <<" ", " ">>,
   <<"a">>, <<"A">>, <<"b">>, <<"d">>,
   <<"a", " ", "b">>, <<"B", " ", " ", "a">>, <<" ", "a", "b", " ">>, <<"b", "a">>,
   <<"_">>, <<"%">>, <<"a", "_", "b">>}

InitKeyword ==
  /\ schema = SchemaObjects
  /\ employers = {employer_row(employer_data(e, IF e = 1 THEN "a" ELSE "b")) :
                    e \in StoredEmployerIds}
  /\ \E ids \in SUBSET TitledVacancyIds :
       \E t \in [ids -> KeywordTitles] :
         vacancies = {titled_vacancy(id, t[id]) : id \in ids}
  /\ connection = NoConnection
  /\ open_conns = {}
  /\ call = [op |-> "__init__", arg |-> None, fault |-> "none"]
  /\ ret = None
  /\ log = <<>>
  /\ upserted_employers = employer_ids(DB)
  /\ upserted_vacancies = vacancy_ids(DB)

GetVacanciesWithKeyword ==
  \E keyword \in Keywords, fault \in QueryFaults, vorder \in PhysicalOrders(TitledVacancyIds) :
    \E out \in {get_vacancies_with_keyword(DB, NewCall, keyword, fault, vorder)} :
      /\ Returns("get_vacancies_with_keyword", keyword, fault, out)
      /\ UNCHANGED <<upserted_employers, upserted_vacancies>>

NextKeyword == GetVacanciesWithKeyword

SpecKeyword == InitKeyword /\ [][NextKeyword]_vars

----------------------------------------------------------------------------
(* The salary range search.  A comparison in SQL has three outcomes; WHERE  *)
(* keeps the rows whose condition is true.                                  *)

SqlTrue == "true"
SqlFalse == "false"
SqlUnknown == "unknown"

Sql3(b) == IF b THEN SqlTrue ELSE SqlFalse

(* x >= p and x <= p for a column value x and a parameter p that is not null *)
Ge(x, p) == IF x = NULL THEN SqlUnknown ELSE Sql3(x[1] >= p)
Le(x, p) == IF x = NULL THEN SqlUnknown ELSE Sql3(x[1] <= p)

IsNull(x) == Sql3(x = NULL)
IsNotNull(x) == Sql3(x # NULL)

Or3(a, b) ==
  IF a = SqlTrue \/ b = SqlTrue
    THEN SqlTrue
    ELSE IF a = SqlFalse /\ b = SqlFalse THEN SqlFalse ELSE SqlUnknown

And3(a, b) ==
  IF a = SqlFalse \/ b = SqlFalse
    THEN SqlFalse
    ELSE IF a = SqlTrue /\ b = SqlTrue THEN SqlTrue ELSE SqlUnknown

(* faulty variant: both bounds have to reach the minimum *)
MinFilterBoth(v, min_salary) ==
  And3(Ge(v.salary_to, min_salary), Ge(v.salary_from, min_salary))

(* (v.salary_to >= %s OR v.salary_from >= %s) *)
MinFilter(v, min_salary) ==
  Or3(Ge(v.salary_to, min_salary), Ge(v.salary_from, min_salary))

(* faulty variant: without OR v.salary_from IS NULL *)
MaxFilterWithoutNull(v, max_salary) ==
  Or3(Le(v.salary_from, max_salary), Le(v.salary_to, max_salary))

(* (v.salary_from <= %s OR v.salary_to <= %s OR v.salary_from IS NULL) *)
MaxFilter(v, max_salary) ==
  Or3(Or3(Le(v.salary_from, max_salary), Le(v.salary_to, max_salary)),
      IsNull(v.salary_from))

(* faulty variant: the maximum filter replaces the WHERE clause built so    *)
(* far instead of being added to it                                         *)
RangeWhereReplaced(v, min_salary, max_salary) ==
  LET base == Or3(IsNotNull(v.salary_from), IsNotNull(v.salary_to))
  IN IF max_salary # NULL
       THEN And3(base, MaxFilter(v, max_salary[1]))
       ELSE IF min_salary # NULL THEN And3(base, MinFilter(v, min_salary[1])) ELSE base

(* the WHERE clause as get_vacancies_with_salary_range builds it *)
RangeWhere(v, min_salary, max_salary) ==
  LET base == Or3(IsNotNull(v.salary_from), IsNotNull(v.salary_to))
      with_min == IF min_salary # NULL
                    THEN And3(base, MinFilter(v, min_salary[1]))
                    ELSE base
  IN IF max_salary # NULL
       THEN And3(with_min, MaxFilter(v, max_salary[1]))
       ELSE with_min

(* COALESCE(v.salary_from, v.salary_to, 0) *)
Coalesce(v) ==
  IF v.salary_from # NULL
    THEN v.salary_from[1]
    ELSE IF v.salary_to # NULL THEN v.salary_to[1] ELSE 0

SelectSalaryRange(db, min_salary, max_salary, vorder) ==
  IF {"vacancies", "employers"} \subseteq db.schema
    THEN [ok |-> TRUE,
          value |-> OrderByDesc({[key |-> Coalesce(v), pos |-> vorder[v.vacancy_id],
                                  row |-> VacancyTuple(db, v)] :
                                 v \in {x \in Joined(db) :
                                          RangeWhere(x, min_salary, max_salary) = SqlTrue}})]
    ELSE [ok |-> FALSE, value |-> <<>>]

get_vacancies_with_salary_range(db, cs, min_salary, max_salary, fault, vorder) ==
  IF fault = "connect"
    THEN [ret |-> <<>>, db |-> db, log |-> <<>>, cs |-> connect(cs, FALSE)]
    ELSE LET c1 == connect(cs, TRUE)
             result == IF fault = "execute1"
                         THEN [ok |-> FALSE, value |-> <<>>]
                         ELSE SelectSalaryRange(db, min_salary, max_salary, vorder)
         IN [ret |-> IF result.ok THEN result.value ELSE <<>>,
             db |-> db, log |-> <<"SELECT salary range">>, cs |-> close(c1)]

(* Stores for the salary range search: every vacancy id is absent or holds  *)
(* a vacancy with one of the pairs of bounds below.                         *)

MaxRangeVacancies == 2

RangeVacancyIds == 1..MaxRangeVacancies

RangeCases ==
  {[employer_id |-> 1, name |-> "job-a", salary_from |-> NULL, salary_to |-> Some(250)],
   [employer_id |-> 1, name |-> "job-a", salary_from |-> Some(100), salary_to |-> Some(150)],
   [employer_id |-> 2, name |-> "job-b", salary_from |-> Some(300), salary_to |-> NULL],
   [employer_id |-> 2, name |-> "job-b", salary_from |-> NULL, salary_to |-> NULL],
   [employer_id |-> 2, name |-> "job-c", salary_from |-> Some(300), salary_to |-> Some(400)],
   [employer_id |-> 1, name |-> "job-c", salary_from |-> NULL, salary_to |-> Some(150)]}

(* the bounds of a search: none, or a number *)
MinSalaries == {NULL, Some(200), Some(250)}
MaxSalaries == {NULL, Some(200), Some(300)}

InitRange ==
  /\ schema = SchemaObjects
  /\ employers = {employer_row(employer_data(e, IF e = 1 THEN "a" ELSE "b")) :
                    e \in StoredEmployerIds}
  /\ \E ids \in SUBSET RangeVacancyIds :
       \E c \in [ids -> RangeCases] :
         vacancies = {stored_vacancy(id, c[id]) : id \in ids}
  /\ connection = NoConnection
  /\ open_conns = {}
  /\ call = [op |-> "__init__", arg |-> None, fault |-> "none"]
  /\ ret = None
  /\ log = <<>>
  /\ upserted_employers = employer_ids(DB)
  /\ upserted_vacancies = vacancy_ids(DB)

GetVacanciesWithSalaryRange ==
  \E min_salary \in MinSalaries, max_salary \in MaxSalaries,
     fault \in QueryFaults, vorder \in PhysicalOrders(RangeVacancyIds) :
    \E out \in {get_vacancies_with_salary_range(DB, NewCall, min_salary, max_salary,
                                                fault, vorder)} :
      /\ Returns("get_vacancies_with_salary_range", <<min_salary, max_salary>>, fault, out)
      /\ UNCHANGED <<upserted_employers, upserted_vacancies>>

NextRange == GetVacanciesWithSalaryRange

SpecRange == InitRange /\ [][NextRange]_vars

----------------------------------------------------------------------------
(* Counts per company *)

(* faulty variant: JOIN instead of LEFT JOIN *)
InnerJoinGroups(db) == {e \in db.employers : VacancyCount(db, e) > 0}

(* FROM employers e LEFT JOIN vacancies v ON e.employer_id = v.employer_id  *)
(* GROUP BY e.employer_id, e.name: one group per employer, with or without  *)
(* vacancies                                                                *)
LeftJoinGroups(db) == db.employers

(* SELECT e.name, COUNT(v.vacancy_id) as vacancy_count ... ORDER BY         *)
(* vacancy_count DESC                                                       *)
SelectCompaniesAndVacanciesCount(db, eorder) ==
  IF {"vacancies", "employers"} \subseteq db.schema
    THEN [ok |-> TRUE,
          value |-> OrderByDesc({[key |-> VacancyCount(db, e),
                                  pos |-> eorder[e.employer_id],
                                  row |-> <<e.name, VacancyCount(db, e)>>] :
                                 e \in LeftJoinGroups(db)})]
    ELSE [ok |-> FALSE, value |-> <<>>]

get_companies_and_vacancies_count(db, cs, fault, eorder) ==
  IF fault = "connect"
    THEN [ret |-> <<>>, db |-> db, log |-> <<>>, cs |-> connect(cs, FALSE)]
    ELSE LET c1 == connect(cs, TRUE)
             result == IF fault = "execute1" THEN [ok |-> FALSE, value |-> <<>>]
                                             ELSE SelectCompaniesAndVacanciesCount(db, eorder)
         IN [ret |-> IF result.ok THEN result.value ELSE <<>>,
             db |-> db, log |-> <<"SELECT companies and counts">>, cs |-> close(c1)]

(* Stores for the counts: employers 1..n are stored, and the vacancies      *)
(* 1..total are theirs, counts[e] of them of employer e.                    *)

MaxCountedEmployers == 3
MaxCountedVacancies == 6

CountedVersions == <<"a", "b", "c", "d">>

RECURSIVE SumTo(_, _)
SumTo(counts, e) == IF e = 0 THEN 0 ELSE counts[e] + SumTo(counts, e - 1)

OwnerOf(counts, k) ==
  CHOOSE e \in DOMAIN counts : SumTo(counts, e - 1) < k /\ k <= SumTo(counts, e)

counted_vacancy(id, e) ==
  stored_vacancy(id, [employer_id |-> e, name |-> "job-a",
                      salary_from |-> Some(100), salary_to |-> NULL])

InitCounts ==
  /\ schema = SchemaObjects
  /\ \E n \in 0..MaxCountedEmployers :
       \E counts \in [1..n -> 0..MaxCountedVacancies] :
         /\ SumTo(counts, n) <= MaxCountedVacancies
         /\ employers = {employer_row(employer_data(e, CountedVersions[e])) : e \in 1..n}
         /\ vacancies = {counted_vacancy(k, OwnerOf(counts, k)) : k \in 1..SumTo(counts, n)}
  /\ connection = NoConnection
  /\ open_conns = {}
  /\ call = [op |-> "__init__", arg |-> None, fault |-> "none"]
  /\ ret = None
  /\ log = <<>>
  /\ upserted_employers = employer_ids(DB)
  /\ upserted_vacancies = vacancy_ids(DB)

GetCompaniesAndVacanciesCount ==
  \E fault \in QueryFaults, eorder \in PhysicalOrders(1..MaxCountedEmployers) :
    \E out \in {get_companies_and_vacancies_count(DB, NewCall, fault, eorder)} :
      /\ Returns("get_companies_and_vacancies_count", None, fault, out)
      /\ UNCHANGED <<upserted_employers, upserted_vacancies>>

GetTopCompanies ==
  \E limit \in {1, 10}, fault \in QueryFaults, eorder \in PhysicalOrders(1..MaxCountedEmployers) :
    \E out \in {get_top_companies_by_vacancies(DB, NewCall, limit, fault, eorder)} :
      /\ Returns("get_top_companies_by_vacancies", limit, fault, out)
      /\ UNCHANGED <<upserted_employers, upserted_vacancies>>

NextCounts == GetCompaniesAndVacanciesCount \/ GetTopCompanies

SpecCounts == InitCounts /\ [][NextCounts]_vars

----------------------------------------------------------------------------
(* The list of all vacancies, and the query engine as a whole *)

(* SELECT ... FROM vacancies v JOIN employers e ... ORDER BY e.name, v.name *)
SelectAllVacancies(db, vorder) ==
  IF {"vacancies", "employers"} \subseteq db.schema
    THEN [ok |-> TRUE,
          value |-> OrderByDesc({[key |-> ByCompanyAndTitle(db, v),
                                  pos |-> vorder[v.vacancy_id],
                                  row |-> VacancyTuple(db, v)] : v \in Joined(db)})]
    ELSE [ok |-> FALSE, value |-> <<>>]

(* faulty variant: the failure of the query is ignored *)
get_all_vacancies_unguarded(db, cs, fault, vorder) ==
  LET c1 == connect(cs, TRUE)
      rows == OrderByDesc({[key |-> 0, pos |-> vorder[v.vacancy_id],
                            row |-> VacancyTuple(db, v)] : v \in Joined(db)})
  IN [ret |-> rows, db |-> db, log |-> <<"SELECT all vacancies">>, cs |-> close(c1)]

get_all_vacancies(db, cs, fault, vorder) ==
  IF fault = "connect"
    THEN [ret |-> <<>>, db |-> db, log |-> <<>>, cs |-> connect(cs, FALSE)]
    ELSE LET c1 == connect(cs, TRUE)
             result == IF fault = "execute1" THEN [ok |-> FALSE, value |-> <<>>]
                                             ELSE SelectAllVacancies(db, vorder)
         IN [ret |-> IF result.ok THEN result.value ELSE <<>>,
             db |-> db, log |-> <<"SELECT all vacancies">>, cs |-> close(c1)]

(* Stores for the whole engine: the database before create_tables, or both  *)
(* employers and, under every vacancy id, no vacancy or one of the rows     *)
(* below.                                                                   *)

MaxEngineVacancies == 2

EngineVacancyIds == 1..MaxEngineVacancies

EngineCases ==
  {[employer_id |-> 1, name |-> "job-a", salary_from |-> Some(100), salary_to |-> Some(200)],
   [employer_id |-> 2, name |-> "job-b", salary_from |-> NULL, salary_to |-> Some(250)],
   [employer_id |-> 1, name |-> "job-a", salary_from |-> NULL, salary_to |-> NULL]}

EngineKeywords == {<<" ">>, <<"j", "o", "b">>, <<"-", "A">>}

EngineRanges == {<<Some(200), NULL>>, <<NULL, Some(200)>>}

InitEngine ==
  /\ \/ /\ schema = {}
        /\ employers = {}
        /\ vacancies = {}
     \/ /\ schema = SchemaObjects
        /\ employers = {employer_row(employer_data(e, IF e = 1 THEN "a" ELSE "b")) :
                          e \in StoredEmployerIds}
        /\ \E ids \in SUBSET EngineVacancyIds :
             \E c \in [ids -> EngineCases] :
               vacancies = {stored_vacancy(id, c[id]) : id \in ids}
  /\ connection = NoConnection
  /\ open_conns = {}
  /\ call = [op |-> "__init__", arg |-> None, fault |-> "none"]
  /\ ret = None
  /\ log = <<>>
  /\ upserted_employers = employer_ids(DB)
  /\ upserted_vacancies = vacancy_ids(DB)

EngineOrders == PhysicalOrders(EngineVacancyIds)

CompaniesAndVacanciesCount ==
  \E fault \in QueryFaults, eorder \in PhysicalOrders(StoredEmployerIds) :
    \E out \in {get_companies_and_vacancies_count(DB, NewCall, fault, eorder)} :
      /\ Returns("get_companies_and_vacancies_count", None, fault, out)
      /\ UNCHANGED <<upserted_employers, upserted_vacancies>>

AllVacancies ==
  \E fault \in QueryFaults, vorder \in EngineOrders :
    \E out \in {get_all_vacancies(DB, NewCall, fault, vorder)} :
      /\ Returns("get_all_vacancies", None, fault, out)
      /\ UNCHANGED <<upserted_employers, upserted_vacancies>>

(* faulty variant: a cache; the value the previous call of the operation   *)
(* returned is returned again                                               *)
AvgSalaryCached ==
  \E fault \in QueryFaults :
    \E fresh \in {get_avg_salary(DB, NewCall, fault)} :
      \E out \in {IF call.op = "get_avg_salary" THEN [fresh EXCEPT !.ret = ret] ELSE fresh} :
        /\ Returns("get_avg_salary", None, fault, out)
        /\ UNCHANGED <<upserted_employers, upserted_vacancies>>

AvgSalary ==
  \E fault \in QueryFaults :
    \E out \in {get_avg_salary(DB, NewCall, fault)} :
      /\ Returns("get_avg_salary", None, fault, out)
      /\ UNCHANGED <<upserted_employers, upserted_vacancies>>

VacanciesWithHigherSalary ==
  \E avg_fault \in QueryFaults, fault \in QueryFaults, vorder \in EngineOrders :
    \E out \in {get_vacancies_with_higher_salary(DB, NewCall, avg_fault, fault, vorder)} :
      /\ Returns("get_vacancies_with_higher_salary", None, <<avg_fault, fault>>, out)
      /\ UNCHANGED <<upserted_employers, upserted_vacancies>>

VacanciesWithKeyword ==
  \E keyword \in EngineKeywords, fault \in QueryFaults, vorder \in EngineOrders :
    \E out \in {get_vacancies_with_keyword(DB, NewCall, keyword, fault, vorder)} :
      /\ Returns("get_vacancies_with_keyword", keyword, fault, out)
      /\ UNCHANGED <<upserted_employers, upserted_vacancies>>

VacanciesWithSalaryRange ==
  \E range \in EngineRanges, fault \in QueryFaults, vorder \in EngineOrders :
    \E out \in {get_vacancies_with_salary_range(DB, NewCall, range[1], range[2],
                                                fault, vorder)} :
      /\ Returns("get_vacancies_with_salary_range", range, fault, out)
      /\ UNCHANGED <<upserted_employers, upserted_vacancies>>

TopCompaniesByVacancies ==
  \E limit \in {1, 10}, fault \in QueryFaults, eorder \in PhysicalOrders(StoredEmployerIds) :
    \E out \in {get_top_companies_by_vacancies(DB, NewCall, limit, fault, eorder)} :
      /\ Returns("get_top_companies_by_vacancies", limit, fault, out)
      /\ UNCHANGED <<upserted_employers, upserted_vacancies>>

Statistics ==
  \E f \in StatisticsFaults, vorder \in EngineOrders,
     eorder \in PhysicalOrders(StoredEmployerIds) :
    \E out \in {get_statistics(DB, NewCall, f[1], f[2], f[3], vorder, eorder)} :
      /\ Returns("get_statistics", None, f, out)
      /\ UNCHANGED <<upserted_employers, upserted_vacancies>>

NextEngine ==
  \/ CompaniesAndVacanciesCount
  \/ AllVacancies
  \/ AvgSalary
  \/ VacanciesWithHigherSalary
  \/ VacanciesWithKeyword
  \/ VacanciesWithSalaryRange
  \/ TopCompaniesByVacancies
  \/ Statistics

SpecEngine == InitEngine /\ [][NextEngine]_vars

----------------------------------------------------------------------------
(* The HeadHunter client (src/src/api/hh_api.py).                           *)
(*                                                                          *)
(* A JSON value, and the Python value json() makes of it, is a record with  *)
(* its type in field t.  A string is kept as a name for its text and its    *)
(* length.  An operation that can raise yields [exc, value]; exc is "none"  *)
(* or the exception.  The placeholders of the source are transliterated.    *)

JNull == [t |-> "null"]
JInt(n) == [t |-> "int", v |-> n]
JStr(s, n) == [t |-> "str", v |-> s, len |-> n]
JList(items) == [t |-> "list", v |-> items]
JObj(fields) == [t |-> "obj", v |-> fields]

EmptyDict == JObj(<< >>)
EmptyStr == JStr("", 0)
EmptyList == JList(<< >>)

(* bool(x) *)
Truthy(x) ==
  CASE x.t = "null" -> FALSE
    [] x.t = "int" -> x.v # 0
    [] x.t = "str" -> x.len > 0
    [] x.t = "list" -> Len(x.v) > 0
    [] x.t = "obj" -> DOMAIN x.v # {}

Value(x) == [exc |-> "none", value |-> x]
Raise(e) == [exc |-> e, value |-> JNull]

(* d.get(key, default) of a dict d *)
Field(d, key, default) == IF key \in DOMAIN d.v THEN d.v[key] ELSE default

(* x.get(key, default): only a dict has the method *)
Get(x, key, default) ==
  IF x.t = "obj" THEN Value(Field(x, key, default)) ELSE Raise("AttributeError")

(* faulty variant: a value that is present is taken as it is *)
OrNothing(x, default) == x

(* x or default *)
Or(x, default) == IF Truthy(x) THEN x ELSE default

(* x[:n] *)
Slice(x, n) ==
  CASE x.t = "str" -> Value(JStr(x.v, IF x.len > n THEN n ELSE x.len))
    [] x.t = "list" -> Value(JList(IF Len(x.v) > n THEN SubSeq(x.v, 1, n) ELSE x.v))
    [] OTHER -> Raise("TypeError")

NoTitle == JStr("Bez nazvaniya", 12)
NotStated == JStr("Ne ukazan", 9)

_parse_salary(salary_data) ==
  IF ~Truthy(salary_data)
    THEN Value(<<JNull, JNull, JNull>>)
    ELSE IF salary_data.t # "obj"
      THEN Raise("AttributeError")
      ELSE Value(<<Field(salary_data, "from", JNull),
                   Field(salary_data, "to", JNull),
                   Field(salary_data, "currency", JNull)>>)

(* the try block of _parse_vacancy *)
ParsedVacancy(raw, employer_id) ==
  IF raw.t # "obj"
    THEN Raise("AttributeError")
    ELSE LET salary == _parse_salary(Field(raw, "salary", JNull))
             experience_dict == Or(Field(raw, "experience", JNull), EmptyDict)
             employment_dict == Or(Field(raw, "employment", JNull), EmptyDict)
             schedule_dict == Or(Field(raw, "schedule", JNull), EmptyDict)
             snippet_dict == Or(Field(raw, "snippet", JNull), EmptyDict)
             experience == Get(experience_dict, "name", NotStated)
             employment == Get(employment_dict, "name", NotStated)
             schedule == Get(schedule_dict, "name", NotStated)
             requirement == Get(snippet_dict, "requirement", JNull)
             responsibility == Get(snippet_dict, "responsibility", JNull)
         IN IF salary.exc # "none"
              THEN salary
              ELSE IF \E x \in {experience, employment, schedule, requirement, responsibility} :
                        x.exc # "none"
                THEN Raise("AttributeError")
                ELSE LET requirements == Slice(Or(requirement.value, EmptyStr), 1000)
                         responsibilities == Slice(Or(responsibility.value, EmptyStr), 1000)
                     IN IF requirements.exc # "none" \/ responsibilities.exc # "none"
                          THEN Raise("TypeError")
                          ELSE Value(JObj(
                                 [id |-> Field(raw, "id", JNull),
                                  employer_id |-> JInt(employer_id),
                                  name |-> Field(raw, "name", NoTitle),
                                  salary_from |-> salary.value[1],
                                  salary_to |-> salary.value[2],
                                  currency |-> salary.value[3],
                                  url |-> Field(raw, "alternate_url", JNull),
                                  experience |-> experience.value,
                                  employment |-> employment.value,
                                  schedule |-> schedule.value,
                                  requirements |-> requirements.value,
                                  responsibility |-> responsibilities.value,
                                  published_at |-> Field(raw, "published_at",
                                                         EmptyStr)]))

(* except Exception: the handler formats vacancy_data.get('id', 'unknown')  *)
(* into its message and returns None; the get raises in its turn when       *)
(* vacancy_data is not a dict                                               *)
_parse_vacancy(raw, employer_id) ==
  LET parsed == ParsedVacancy(raw, employer_id)
  IN IF parsed.exc = "none"
       THEN parsed
       ELSE LET id == Get(raw, "id", JStr("unknown", 7))
            IN IF id.exc # "none" THEN Raise(id.exc) ELSE Value(JNull)

(* for vacancy in page_vacancies: ... vacancies.append(parsed_vacancy) *)
RECURSIVE ParsePage(_, _, _)
ParsePage(page_vacancies, employer_id, collected) ==
  IF page_vacancies = << >>
    THEN [exc |-> "none", value |-> collected]
    ELSE LET parsed_vacancy == _parse_vacancy(Head(page_vacancies), employer_id)
         IN IF parsed_vacancy.exc # "none"
              THEN [exc |-> parsed_vacancy.exc, value |-> collected]
              ELSE ParsePage(Tail(page_vacancies), employer_id,
                             IF Truthy(parsed_vacancy.value)
                               THEN Append(collected, parsed_vacancy.value)
                               ELSE collected)

(* The upstream.  A response is named by its kind; what it carries depends  *)
(* on the page asked for.  Vacancy 2p+1 and 2p+2 are on page p.             *)

MaxPage == 2

(* the number of pages a response reports when more pages follow *)
TotalPages == MaxPage + 1

raw_vacancy(n) ==
  JObj([id |-> JStr(ToString(n), 1),
        name |-> JStr("job", 3),
        salary |-> JObj([from |-> JInt(100), to |-> JNull, currency |-> JStr("RUR", 3)]),
        alternate_url |-> JStr("https://hh.ru/vacancy", 21),
        experience |-> JObj([id |-> JStr("noExperience", 12), name |-> JStr("exp", 3)]),
        schedule |-> JNull,
        snippet |-> JObj([requirement |-> JStr("req", 1200), responsibility |-> JNull]),
        published_at |-> JStr("2024-01-01", 10)])

(* a vacancy whose salary is a string: _parse_salary fails on it *)
malformed_vacancy(n) == JObj([id |-> JStr(ToString(n), 1), salary |-> JStr("100", 3)])

VacancyResponseKinds ==
  {"transport_error", "http_error", "not_json_request_exception", "not_json_value_error",
   "not_an_object", "good_more", "malformed_more", "non_object_item_more", "empty",
   "good_no_pages", "good_last", "good_null_pages"}

Page(items, pages) ==
  [status |-> "ok", json |-> "ok", body |-> JObj([items |-> JList(items), pages |-> pages])]

NotFoundBody == JObj([description |-> JStr("Not Found", 9), errors |-> EmptyList])

VacanciesResponse(kind, page) ==
  LET first == raw_vacancy(2 * page + 1)
      second == raw_vacancy(2 * page + 2)
  IN CASE kind = "transport_error" -> [status |-> kind, json |-> "ok", body |-> JNull]
       [] kind = "http_error" -> [status |-> kind, json |-> "ok", body |-> NotFoundBody]
       [] kind = "not_json_request_exception" ->
            [status |-> "ok", json |-> "RequestException", body |-> JNull]
       [] kind = "not_json_value_error" ->
            [status |-> "ok", json |-> "ValueError", body |-> JNull]
       [] kind = "not_an_object" -> [status |-> "ok", json |-> "ok", body |-> EmptyList]
       [] kind = "good_more" -> Page(<<first, second>>, JInt(TotalPages))
       [] kind = "malformed_more" ->
            Page(<<malformed_vacancy(2 * page + 1), second>>, JInt(TotalPages))
       [] kind = "non_object_item_more" -> Page(<<JNull, second>>, JInt(TotalPages))
       [] kind = "empty" -> Page(<< >>, JInt(TotalPages))
       [] kind = "good_no_pages" ->
            [status |-> "ok", json |-> "ok", body |-> JObj([items |-> JList(<<first, second>>)])]
       [] kind = "good_last" -> Page(<<first, second>>, JInt(page + 1))
       [] kind = "good_null_pages" -> Page(<<first, second>>, JNull)

(* requests.get raises a RequestException when the transport fails *)
requests_get(response) ==
  IF response.status = "transport_error" THEN Raise("RequestException") ELSE Value(response)

(* faulty variant: the status of the response is not looked at *)
raise_for_status_skipped(response) == Value(response)

(* response.raise_for_status() *)
raise_for_status(response) ==
  IF response.status = "http_error" THEN Raise("RequestException") ELSE Value(response)

(* response.json(): a body that is not JSON raises JSONDecodeError, which   *)
(* is a RequestException in requests 2.27 and later and a plain ValueError  *)
(* before                                                                   *)
json(response) ==
  IF response.json # "ok" THEN Raise(response.json) ELSE Value(response.body)

(* requests.get(...); response.raise_for_status(); data = response.json() *)
Fetch(response) ==
  LET got == requests_get(response)
  IN IF got.exc # "none"
       THEN got
       ELSE LET checked == raise_for_status(response)
            IN IF checked.exc # "none" THEN checked ELSE json(response)

VacanciesRequest(employer_id, page) ==
  "GET /vacancies?employer_id=" \o ToString(employer_id) \o "&page=" \o ToString(page)
    \o "&per_page=100"

Raised(exc) == "raise " \o exc

(* faulty variant: the pause is left out *)
time_sleep_skipped(trace, seconds) == trace

(* time.sleep(seconds) *)
time_sleep(trace, seconds) == Append(trace, "sleep " \o seconds)

(* faulty variant: the page that failed is requested once more *)
except_RequestException_retrying(employer_id, page, collected, trace) ==
  [page |-> page, ret |-> collected, log |-> Append(trace, VacanciesRequest(employer_id, page))]

(* except requests.exceptions.RequestException: print(...); break *)
except_RequestException(employer_id, page, collected, trace) ==
  [page |-> page, ret |-> collected, log |-> trace]

(* faulty variant: the loop goes on until the page index reaches the count *)
LastPageOffByOne(page, pages) == page >= pages

(* if page >= pages - 1: break *)
LastPage(page, pages) == page >= pages - 1

(* One iteration of the loop of get_vacancies_by_employer on the response   *)
(* to the request for page: the page index, the vacancies and the log       *)
(* after it, and whether the loop goes on ("continue"), was left ("break")  *)
(* or the call raised ("raise").                                            *)
Iteration(employer_id, response, page, collected, trace) ==
  LET trace1 == Append(trace, VacanciesRequest(employer_id, page))
      data == Fetch(response)
      raise(exc) == [page |-> page, ret |-> "raise", log |-> Append(trace1, Raised(exc)),
                     end |-> "raise"]
  IN IF data.exc = "RequestException"
       THEN LET caught == except_RequestException(employer_id, page, collected, trace1)
            IN [page |-> caught.page, ret |-> caught.ret, log |-> caught.log, end |-> "break"]
       ELSE IF data.exc # "none"
         THEN raise(data.exc)
         ELSE LET page_vacancies == Get(data.value, "items", EmptyList)
              IN IF page_vacancies.exc # "none"
                   THEN raise(page_vacancies.exc)
                   ELSE IF ~Truthy(page_vacancies.value)
                     THEN [page |-> page, ret |-> collected, log |-> trace1, end |-> "break"]
                     ELSE IF page_vacancies.value.t # "list"
                       THEN raise(IF page_vacancies.value.t = "int"
                                    THEN "TypeError" ELSE "AttributeError")
                       ELSE LET parsed == ParsePage(page_vacancies.value.v,
                                                    employer_id, collected)
                                pages == Field(data.value, "pages", JInt(0))
                            IN IF parsed.exc # "none"
                                 THEN raise(parsed.exc)
                                 ELSE IF pages.t # "int"
                                   THEN raise("TypeError")
                                   ELSE IF LastPage(page, pages.v)
                                     THEN [page |-> page, ret |-> parsed.value,
                                           log |-> trace1, end |-> "break"]
                                     ELSE [page |-> page + 1, ret |-> parsed.value,
                                           log |-> time_sleep(trace1, "0.1"),
                                           end |-> "continue"]

(* while True: the iterations from page on.  upstream[page + 1] is the kind *)
(* of the response to the request for page; an upstream too short for the   *)
(* call answers "unserved".                                                 *)
RECURSIVE WhileTrue(_, _, _, _, _)
WhileTrue(employer_id, upstream, page, collected, trace) ==
  IF page + 1 > Len(upstream)
    THEN [page |-> page, ret |-> "unserved", log |-> Append(trace, "unserved")]
    ELSE LET it == Iteration(employer_id, VacanciesResponse(upstream[page + 1], page),
                             page, collected, trace)
         IN IF it.end = "continue"
              THEN WhileTrue(employer_id, upstream, it.page, it.ret, it.log)
              ELSE [page |-> it.page, ret |-> it.ret, log |-> it.log]

get_vacancies_by_employer(employer_id, upstream) ==
  WhileTrue(employer_id, upstream, 0, << >>, << >>)

EmployerResponseKinds ==
  {"transport_error", "http_error", "not_json_request_exception", "not_json_value_error",
   "not_an_object", "employer", "employer_long_description", "employer_null_description",
   "employer_empty"}

raw_employer(id, description) ==
  JObj([id |-> JStr(ToString(id), 1),
        name |-> JStr("company", 7),
        alternate_url |-> JStr("https://hh.ru/employer", 22),
        open_vacancies |-> JInt(10),
        description |-> description])

EmployerResponse(kind, employer_id) ==
  CASE kind = "transport_error" -> [status |-> kind, json |-> "ok", body |-> JNull]
    [] kind = "http_error" -> [status |-> kind, json |-> "ok", body |-> NotFoundBody]
    [] kind = "not_json_request_exception" ->
         [status |-> "ok", json |-> "RequestException", body |-> JNull]
    [] kind = "not_json_value_error" ->
         [status |-> "ok", json |-> "ValueError", body |-> JNull]
    [] kind = "not_an_object" -> [status |-> "ok", json |-> "ok", body |-> EmptyList]
    [] kind = "employer" ->
         [status |-> "ok", json |-> "ok", body |-> raw_employer(employer_id, JStr("about", 5))]
    [] kind = "employer_long_description" ->
         [status |-> "ok", json |-> "ok", body |-> raw_employer(employer_id, JStr("about", 700))]
    [] kind = "employer_null_description" ->
         [status |-> "ok", json |-> "ok", body |-> raw_employer(employer_id, JNull)]
    [] kind = "employer_empty" -> [status |-> "ok", json |-> "ok", body |-> EmptyDict]

EmployerRequest(employer_id) == "GET /employers/" \o ToString(employer_id)

get_employer(employer_id, kind) ==
  LET log1 == <<EmployerRequest(employer_id)>>
      data == Fetch(EmployerResponse(kind, employer_id))
  IN IF data.exc = "RequestException"
       THEN [ret |-> JNull, log |-> log1]
       ELSE IF data.exc # "none"
         THEN [ret |-> "raise", log |-> Append(log1, Raised(data.exc))]
         ELSE IF data.value.t # "obj"
           THEN [ret |-> "raise", log |-> Append(log1, Raised("AttributeError"))]
           ELSE LET description == Slice(Field(data.value, "description", EmptyStr), 500)
                IN IF description.exc # "none"
                     THEN [ret |-> "raise", log |-> Append(log1, Raised(description.exc))]
                     ELSE [ret |-> JObj([id |-> Field(data.value, "id", JNull),
                                         name |-> Field(data.value, "name", JNull),
                                         url |-> Field(data.value, "alternate_url", JNull),
                                         open_vacancies |->
                                           Field(data.value, "open_vacancies", JInt(0)),
                                         description |-> description.value]),
                           log |-> log1]

(* the call whose log this is ended with an exception *)
Raising(trace) ==
  /\ trace # << >>
  /\ trace[Len(trace)] \in {Raised(e) : e \in {"ValueError", "AttributeError", "TypeError"}}

(* employers[emp_id] = employer_data *)
SetItem(d, key, value) ==
  [v |-> [k \in DOMAIN d.v \cup {key} |-> IF k = key THEN value ELSE d.v[k]], t |-> "dict"]

(* for emp_id in employer_ids: the employers from position i on.  A raise   *)
(* of get_employer is not caught and ends the call.                         *)
RECURSIVE ForEmpId(_, _, _, _, _)
ForEmpId(emp_ids, upstream, i, employers_found, trace) ==
  IF i > Len(emp_ids)
    THEN [served |-> i - 1, end |-> "return", ret |-> employers_found, log |-> trace]
    ELSE IF i > Len(upstream)
      THEN [served |-> i - 1, end |-> "unserved", ret |-> "unserved", log |-> trace]
      ELSE LET fetched == get_employer(emp_ids[i], upstream[i])
           IN IF Raising(fetched.log)
                THEN [served |-> i, end |-> "raise", ret |-> "raise",
                      log |-> trace \o fetched.log]
                ELSE ForEmpId(emp_ids, upstream, i + 1,
                              IF Truthy(fetched.ret)
                                THEN SetItem(employers_found, emp_ids[i], fetched.ret)
                                ELSE employers_found,
                              time_sleep(trace \o fetched.log, "0.05"))

get_multiple_employers(emp_ids, upstream) ==
  ForEmpId(emp_ids, upstream, 1, [v |-> << >>, t |-> "dict"], << >>)

(* the upstreams of a call: the responses it was served, one per request *)
Upstreams ==
  {u \in UNION {[1..n -> VacancyResponseKinds] : n \in 1..(MaxPage + 1)} :
     LET out == get_vacancies_by_employer(1, u)
     IN out.log[Len(out.log)] # "unserved" /\ out.page = Len(u) - 1}

ApiReturns(op, arg, out) ==
  /\ Returns(op, arg, "none", [ret |-> out.ret, log |-> out.log, db |-> DB, cs |-> NewCall])
  /\ UNCHANGED <<upserted_employers, upserted_vacancies>>

(* the calls of the client, each with its outcome: <<employer_id, upstream, *)
(* outcome>>                                                                *)
EmployerCalls ==
  {<<employer_id, <<kind>>, get_employer(employer_id, kind)>> :
     employer_id \in EmployerIds, kind \in EmployerResponseKinds}

VacancyCalls ==
  {<<employer_id, upstream, get_vacancies_by_employer(employer_id, upstream)>> :
     employer_id \in EmployerIds, upstream \in Upstreams}

MaxBatch == 2

(* the responses a batch is served: not found, an employer, an employer     *)
(* whose description is null                                                *)
BatchResponseKinds == {"http_error", "employer", "employer_null_description"}

MultipleCalls ==
  {c \in {<<emp_ids, upstream, get_multiple_employers(emp_ids, upstream)>> :
            emp_ids \in UNION {[1..n -> EmployerIds] : n \in 0..MaxBatch},
            upstream \in UNION {[1..n -> BatchResponseKinds] : n \in 0..MaxBatch}} :
     c[3].end # "unserved" /\ c[3].served = Len(c[2])}

GetEmployer ==
  \E c \in EmployerCalls :
    ApiReturns("get_employer", [employer_id |-> c[1], upstream |-> c[2]], c[3])

GetVacanciesByEmployer ==
  \E c \in VacancyCalls :
    ApiReturns("get_vacancies_by_employer", [employer_id |-> c[1], upstream |-> c[2]], c[3])

GetMultipleEmployers ==
  \E c \in MultipleCalls :
    ApiReturns("get_multiple_employers", [employer_ids |-> c[1], upstream |-> c[2]], c[3])

NextApi == GetEmployer \/ GetVacanciesByEmployer \/ GetMultipleEmployers

SpecApi == Init /\ [][NextApi]_vars

(* The loop of get_vacancies_by_employer step by step.  call.arg holds the  *)
(* employer, the kinds of the responses served so far, the page index and   *)
(* the position of the call: in the loop ("loop"), past it ("break"),       *)
(* returned ("return") or ended by an exception ("raise"); ret is the list  *)
(* of the vacancies collected by the iterations completed.  The upstream    *)
(* reports at most TotalPages pages.                                        *)

(* a full page that reports n pages *)
CountedPage(n) == "pages_" \o ToString(n)

LoopResponse(kind, page) ==
  IF kind \in VacancyResponseKinds
    THEN VacanciesResponse(kind, page)
    ELSE Page(<<raw_vacancy(2 * page + 1), raw_vacancy(2 * page + 2)>>,
              JInt(CHOOSE n \in 0..TotalPages : kind = CountedPage(n)))

LoopResponseKinds == VacancyResponseKinds \cup {CountedPage(n) : n \in 0..TotalPages}

(* vacancies = []; page = 0 *)
InitLoop ==
  /\ schema = {}
  /\ employers = {}
  /\ vacancies = {}
  /\ connection = NoConnection
  /\ open_conns = {}
  /\ \E employer_id \in EmployerIds :
       call = [op |-> "get_vacancies_by_employer",
               arg |-> [employer_id |-> employer_id, upstream |-> << >>, page |-> 0,
                        pc |-> "loop"],
               fault |-> "none"]
  /\ ret = << >>
  /\ log = << >>
  /\ upserted_employers = {}
  /\ upserted_vacancies = {}

(* one pass through the body of while True *)
LoopIteration ==
  /\ call.op = "get_vacancies_by_employer"
  /\ call.arg.pc = "loop"
  /\ \E kind \in LoopResponseKinds :
       LET it == Iteration(call.arg.employer_id, LoopResponse(kind, call.arg.page),
                           call.arg.page, ret, log)
       IN ApiReturns("get_vacancies_by_employer",
                     [employer_id |-> call.arg.employer_id,
                      upstream |-> Append(call.arg.upstream, kind),
                      page |-> it.page,
                      pc |-> IF it.end = "continue" THEN "loop" ELSE it.end],
                     [ret |-> IF it.end = "raise" THEN ret ELSE it.ret, log |-> it.log])

(* return vacancies *)
ReturnVacancies ==
  /\ call.op = "get_vacancies_by_employer"
  /\ call.arg.pc = "break"
  /\ call' = [call EXCEPT !.arg.pc = "return"]
  /\ UNCHANGED <<schema, employers, vacancies, connection, open_conns, ret, log,
                 upserted_employers, upserted_vacancies>>

NextLoop == LoopIteration \/ ReturnVacancies

(* the thread that runs the call goes on running, and every request ends    *)
(* with a response or with a failure                                        *)
SpecLoop == InitLoop /\ [][NextLoop]_vars /\ WF_vars(NextLoop)

(* The parser on its own.  A raw vacancy is the base payload with each of   *)
(* its optional fields absent, null or carrying a value.                    *)

Absent == [t |-> "absent"]

(* d with key carrying x, or without key when x is Absent *)
Put(d, key, x) == IF x = Absent THEN d ELSE (key :> x) @@ d

NameCases == {Absent, JNull, JStr("job", 3)}

SalaryObjects ==
  {Absent, JNull, EmptyDict,
   JObj([from |-> JInt(100), to |-> JNull, currency |-> JStr("RUR", 3)]),
   JObj([from |-> JInt(100), to |-> JInt(200)])}

(* a sub-object with a name: experience, employment, schedule *)
NamedCases ==
  {Absent, JNull, EmptyDict, JObj([id |-> JStr("x", 1), name |-> JStr("full", 4)]),
   JObj([id |-> JStr("x", 1), name |-> JNull])}

SnippetCases ==
  {Absent, JNull, EmptyDict,
   JObj([requirement |-> JNull, responsibility |-> JStr("resp", 4)]),
   JObj([requirement |-> JStr("req", 1200), responsibility |-> JStr("resp", 4)])}

raw_fields(name, salary, experience, employment, schedule, snippet) ==
  Put(Put(Put(Put(Put(Put([id |-> JStr("1", 1),
                           alternate_url |-> JStr("https://hh.ru/vacancy", 21),
                           published_at |-> JStr("2024-01-01", 10)],
                          "name", name), "salary", salary), "experience", experience),
              "employment", employment), "schedule", schedule), "snippet", snippet)

(* every combination of the three named sub-objects on a plain vacancy,     *)
(* every combination of name, salary and snippet with the named             *)
(* sub-objects left out, and an item that is not an object                  *)
RawVacancies ==
  {JObj(raw_fields(JStr("job", 3), Absent, experience, employment, schedule, Absent)) :
     experience \in NamedCases, employment \in NamedCases, schedule \in NamedCases}
  \cup {JObj(raw_fields(name, salary, Absent, Absent, Absent, snippet)) :
          name \in NameCases, salary \in SalaryObjects, snippet \in SnippetCases}
  \cup {JNull}

(* the calls of the parser, each with its outcome *)
ParseCalls ==
  {<<employer_id, raw,
     LET parsed == _parse_vacancy(raw, employer_id)
     IN IF parsed.exc = "none"
          THEN [ret |-> parsed.value, log |-> << >>]
          ELSE [ret |-> "raise", log |-> <<Raised(parsed.exc)>>]>> :
     employer_id \in EmployerIds, raw \in RawVacancies}

ParseVacancy ==
  \E c \in ParseCalls :
    ApiReturns("_parse_vacancy", [employer_id |-> c[1], raw |-> c[2]], c[3])

NextParse == ParseVacancy

SpecParse == Init /\ [][NextParse]_vars

----------------------------------------------------------------------------
(* Two clients.  One DBManager runs get_vacancies_with_higher_salary or     *)
(* get_statistics statement by statement; between two statements another    *)
(* DBManager may commit insert_vacancy.  Every statement reads what is      *)
(* committed when it runs: the nested calls open connections of their own,  *)
(* and the statements of one connection run under READ COMMITTED, the       *)
(* level psycopg2.connect gives when none is set.                           *)

MaxInterleavedVacancies == 2

(* writes of the other client during one call *)
MaxCommits == 1

InterleavedIds == 1..MaxInterleavedVacancies
InterleavedCases == {c \in SalaryCases : c.name \in {"job-a", "job-b"}}

(* the payload another client saves for vacancy id *)
interleaved_payload(id, c) ==
  [vacancy_data(id, c.employer_id, "a")
     EXCEPT !.name = c.name, !.salary_from = c.salary_from, !.salary_to = c.salary_to,
            !.url = "https://hh.ru/vacancy/" \o ToString(id)]

(* the position in the running call, its local variables, and the stores    *)
(* committed since it began                                                 *)
Running(op, pc, locals, committed) ==
  [op |-> op, arg |-> None, fault |-> "none", pc |-> pc, locals |-> locals,
   committed |-> committed]

InitInterleaved ==
  /\ schema = SchemaObjects
  /\ employers = {employer_row(employer_data(e, IF e = 1 THEN "a" ELSE "b")) :
                    e \in StoredEmployerIds}
  /\ \E ids \in SUBSET InterleavedIds :
       \E c \in [ids -> InterleavedCases] :
         vacancies = {stored_vacancy(id, c[id]) : id \in ids}
  /\ connection = NoConnection
  /\ open_conns = {}
  /\ call = Running("__init__", "idle", <<>>, <<>>)
  /\ ret = None
  /\ log = <<>>
  /\ upserted_employers = employer_ids(DB)
  /\ upserted_vacancies = vacancy_ids(DB)

(* insert_vacancy of another DBManager commits while the call is running *)
OtherClientCommits ==
  /\ call.pc \notin {"idle", "return"}
  /\ Len(call.committed) <= MaxCommits
  /\ \E id \in InterleavedIds, c \in InterleavedCases :
       LET result == UpsertVacancy(DB, interleaved_payload(id, c))
       IN /\ result.ok
          /\ result.db.vacancies # vacancies
          /\ vacancies' = result.db.vacancies
          /\ upserted_vacancies' = upserted_vacancies \cup {id}
          /\ call' = [call EXCEPT !.committed = Append(@, result.db.vacancies)]
  /\ UNCHANGED <<schema, employers, connection, open_conns, ret, log, upserted_employers>>

(* avg_salary = self.get_avg_salary(); if avg_salary == 0: return [] *)
ReadAverage ==
  /\ call.pc = "idle"
  /\ LET avg == get_avg_salary(DB, NewCall, "none")
     IN /\ call' = Running("get_vacancies_with_higher_salary",
                           IF avg.ret = Zero THEN "return" ELSE "select",
                           <<avg.ret>>, <<vacancies>>)
        /\ ret' = IF avg.ret = Zero THEN <<>> ELSE ret
        /\ log' = avg.log
        /\ connection' = avg.cs.connection
        /\ open_conns' = avg.cs.open
  /\ UNCHANGED <<schema, employers, vacancies, upserted_employers, upserted_vacancies>>

(* self.connect(); cursor.execute(... WHERE avg_vacancy_salary > %s ...,    *)
(* (avg_salary,)); return cursor.fetchall(); finally self.close()           *)
SelectAboveAverage ==
  /\ call.pc = "select"
  /\ \E vorder \in PhysicalOrders(InterleavedIds) :
       LET result == SelectHigherSalary(DB, call.locals[1], vorder)
       IN ret' = IF result.ok THEN result.value ELSE <<>>
  /\ call' = [call EXCEPT !.pc = "return"]
  /\ log' = Append(log, "SELECT vacancy_salaries")
  /\ UNCHANGED <<schema, employers, vacancies, connection, open_conns,
                 upserted_employers, upserted_vacancies>>

(* the statements of get_statistics in the order they run *)
StatisticsSteps ==
  <<"total_vacancies", "total_companies", "vacancies_with_salary", "avg_salary",
    "top_positions", "top_companies">>

(* the place of a statement in that order *)
StepNumber(pc) == CHOOSE k \in 1..Len(StatisticsSteps) : StatisticsSteps[k] = pc

(* what statement number k reads from the store db *)
StatisticsRead(db, k, vorder, eorder) ==
  CASE k = 1 -> Cardinality(db.vacancies)
    [] k = 2 -> Cardinality(db.employers)
    [] k = 3 -> Cardinality({v \in db.vacancies : HasSalary(v)})
    [] k = 4 -> get_avg_salary(db, NewCall, "none").ret
    [] k = 5 -> SelectTopPositions(db, vorder)
    [] k = 6 -> get_top_companies_by_vacancies(db, NewCall, 5, "none", eorder).ret

(* stats = {}; self.connect() *)
BeginStatistics ==
  /\ call.pc = "idle"
  /\ call' = Running("get_statistics", StatisticsSteps[1], <<>>, <<vacancies>>)
  /\ connection' = connect(NewCall, TRUE).connection
  /\ open_conns' = connect(NewCall, TRUE).open
  /\ UNCHANGED <<schema, employers, vacancies, ret, log, upserted_employers,
                 upserted_vacancies>>

(* the next statement of get_statistics; after the last one, return stats   *)
(* and self.close()                                                         *)
StatisticsStatement ==
  /\ call.op = "get_statistics"
  /\ call.pc \in {StatisticsSteps[k] : k \in 1..Len(StatisticsSteps)}
  /\ \E vorder \in PhysicalOrders(InterleavedIds), eorder \in PhysicalOrders(StoredEmployerIds) :
       LET k == StepNumber(call.pc)
           stats == Append(call.locals, StatisticsRead(DB, k, vorder, eorder))
           whole == get_statistics(DB, NewCall, "none", "none", "none", vorder, eorder)
       IN IF k < Len(StatisticsSteps)
            THEN /\ call' = [call EXCEPT !.pc = StatisticsSteps[k + 1], !.locals = stats]
                 /\ log' = Append(log, "SELECT " \o call.pc)
                 /\ UNCHANGED <<ret, connection, open_conns>>
            ELSE /\ call' = [call EXCEPT !.pc = "return", !.locals = stats]
                 /\ ret' = [total_vacancies |-> stats[1],
                            total_companies |-> stats[2],
                            vacancies_with_salary |-> stats[3],
                            avg_salary |-> stats[4],
                            top_positions |-> stats[5],
                            top_companies |-> stats[6]]
                 /\ log' = Append(log, "SELECT " \o call.pc)
                 /\ connection' = whole.cs.connection
                 /\ open_conns' = whole.cs.open
  /\ UNCHANGED <<schema, employers, vacancies, upserted_employers, upserted_vacancies>>

NextInterleaved ==
  \/ ReadAverage
  \/ SelectAboveAverage
  \/ BeginStatistics
  \/ StatisticsStatement
  \/ OtherClientCommits

SpecInterleaved == InitInterleaved /\ [][NextInterleaved]_vars

----------------------------------------------------------------------------
(* Properties of the repository *)

WriteOps == {"create_tables", "insert_employer", "insert_vacancy", "clear_tables"}

(* C1: after any sequence of insert_employer, insert_vacancy and            *)
(* clear_tables calls, successful or failed, there is at most one employer  *)
(* row per employer id and one vacancy row per vacancy id, and an id has a  *)
(* row exactly when it was upserted successfully since the last successful  *)
(* clear_tables.                                                            *)
C1_OneRowPerUpsertedId ==
  /\ \A e1, e2 \in employers : e1.employer_id = e2.employer_id => e1 = e2
  /\ \A v1, v2 \in vacancies : v1.vacancy_id = v2.vacancy_id => v1 = v2
  /\ employer_ids(DB) = upserted_employers
  /\ vacancy_ids(DB) = upserted_vacancies

(* an employer is upserted again while one of its vacancies is stored *)
C1_Witness ==
  /\ call.op = "insert_employer"
  /\ ret = "True"
  /\ \E v \in vacancies : v.employer_id = call.arg.id
  /\ Cardinality(employers) = 1

(* C2: after a successful insert_vacancy the stored row of that id equals   *)
(* the payload in every column, the employer id included.                   *)
C2_StoredRowEqualsPayload ==
  (call.op = "insert_vacancy" /\ ret = "True") => vacancy_row(call.arg) \in vacancies

(* C3: in every reachable store and for every payload, an upsert that      *)
(* succeeds, applied a second time, succeeds and leaves the store as the    *)
(* first application left it, with exactly one row for the id, and that row *)
(* equals the payload.                                                      *)
C3_UpsertIdempotent ==
  /\ \A d \in EmployerPayloads :
       LET once == insert_employer(DB, NewCall, d, "none")
           twice == insert_employer(once.db, NewCall, d, "none")
       IN once.ret = "True" =>
            /\ twice.ret = "True"
            /\ twice.db = once.db
            /\ {e \in twice.db.employers : e.employer_id = d.id} = {employer_row(d)}
  /\ \A d \in VacancyPayloads :
       LET once == insert_vacancy(DB, NewCall, d, "none")
           twice == insert_vacancy(once.db, NewCall, d, "none")
       IN once.ret = "True" =>
            /\ twice.ret = "True"
            /\ twice.db = once.db
            /\ {v \in twice.db.vacancies : v.vacancy_id = d.id} = {vacancy_row(d)}

(* C4: insert_vacancy with an employer id that no stored employer has       *)
(* returns False and leaves the vacancies table as it was, whether or not   *)
(* the vacancy id is stored already (no fault injected).                    *)
C4_MissingEmployerRejected ==
  [][(/\ call'.op = "insert_vacancy"
      /\ call'.fault = "none"
      /\ call'.arg.employer_id \notin employer_ids(DB))
     => (ret' = "False" /\ vacancies' = vacancies)]_vars

C6_AllOrNothing ==
  [][call'.op \in WriteOps =>
       /\ ret' = "False" => DB' = DB
       /\ ret' = "True" =>
            /\ log'[Len(log')] = "COMMIT"
            /\ call'.op = "create_tables" => SchemaObjects \subseteq schema'
            /\ call'.op = "insert_employer" => employer_row(call'.arg) \in employers'
            /\ call'.op = "insert_vacancy" => call'.arg.id \in vacancy_ids(DB')
            /\ call'.op = "clear_tables" => (employers' = {} /\ vacancies' = {})]_vars

(* clear_tables failed after DELETE FROM vacancies; the vacancies are there *)
C6_Witness ==
  /\ call.op = "clear_tables"
  /\ call.fault = "execute2"
  /\ ret = "False"
  /\ log = <<"DELETE FROM vacancies", "DELETE FROM employers", "ROLLBACK">>
  /\ vacancies # {}

(* position of the first occurrence of a statement in a log (0: absent) *)
FirstIndex(l, sql) ==
  IF \E i \in 1..Len(l) : l[i] = sql
    THEN CHOOSE i \in 1..Len(l) : l[i] = sql /\ \A j \in 1..(i - 1) : l[j] # sql
    ELSE 0

(* C7: a successful clear_tables leaves both tables empty whatever was      *)
(* stored; on an empty store (tables created, no fault) it succeeds; and    *)
(* DELETE FROM employers is issued only after DELETE FROM vacancies.        *)
C7_ClearTables ==
  [][call'.op = "clear_tables" =>
       /\ ret' = "True" => (employers' = {} /\ vacancies' = {})
       /\ (call'.fault = "none" /\ {"employers", "vacancies"} \subseteq schema) =>
            ret' = "True"
       /\ FirstIndex(log', "DELETE FROM employers") > 0 =>
            /\ FirstIndex(log', "DELETE FROM vacancies") > 0
            /\ FirstIndex(log', "DELETE FROM vacancies")
                 < FirstIndex(log', "DELETE FROM employers")]_vars

(* clear_tables succeeded on a store that was empty already *)
C7_Witness ==
  /\ call.op = "clear_tables"
  /\ ret = "True"
  /\ log = <<"DELETE FROM vacancies", "DELETE FROM employers", "COMMIT">>
  /\ upserted_employers = {}
  /\ employers = {}
  /\ vacancies = {}

----------------------------------------------------------------------------
(* Properties of the query engine *)

(* C8: when a public operation returns, every connection it opened has been *)
(* closed.                                                                  *)
C8_ConnectionsClosed == open_conns = {}

(* twice the representative value of a vacancy with at least one bound:     *)
(* the midpoint of the two bounds, or the one bound there is                *)
Representative2(salary_from, salary_to) ==
  CASE salary_from # NULL /\ salary_to # NULL -> salary_from[1] + salary_to[1]
    [] salary_from # NULL /\ salary_to = NULL -> 2 * salary_from[1]
    [] salary_from = NULL /\ salary_to # NULL -> 2 * salary_to[1]

Qualifying == {v \in vacancies : ~(v.salary_from = NULL /\ v.salary_to = NULL)}

RECURSIVE SumRepresentative2(_)
SumRepresentative2(S) ==
  IF S = {}
    THEN 0
    ELSE LET v == CHOOSE x \in S : TRUE
         IN Representative2(v.salary_from, v.salary_to) + SumRepresentative2(S \ {v})

(* the mean of the representative values, rounded to cents, is 10^8 or more *)
MeanTooLarge(sum2, n) ==
  LET d == 2 * n * NumericLimit - sum2
  IN d <= 0 \/ (d <= n /\ 100 * d <= n)

StrictlyAbove(value2, avg) ==
  LET d == value2 - 2 * avg.whole
      clipped == IF d > 2 THEN 2 ELSE IF d < -2 THEN -2 ELSE d
  IN 50 * clipped > avg.cents

(* the vacancies above the average avg, as the tuples of the result *)
AboveAverage(avg) ==
  {VacancyTuple(DB, v) :
     v \in {x \in Qualifying :
              StrictlyAbove(Representative2(x.salary_from, x.salary_to), avg)}}

(* rows lists exactly the tuples of S, by representative value descending *)
ListsDescending(rows, S) ==
  /\ Len(rows) = Cardinality(S)
  /\ {rows[i] : i \in 1..Len(rows)} = S
  /\ \A i, j \in 1..Len(rows) :
       i < j => Representative2(rows[i][3], rows[i][4])
                  >= Representative2(rows[j][3], rows[j][4])

----------------------------------------------------------------------------
(* Properties of the keyword search *)

(* the whitespace-separated terms of a text: its maximal runs of characters *)
(* other than whitespace                                                    *)
Terms(text) ==
  {SubSeq(text, i, j) : i \in 1..Len(text), j \in 1..Len(text)}
    \cap {SubSeq(text, i, j) : <<i, j>> \in
            {p \in (1..Len(text)) \X (1..Len(text)) :
               /\ p[1] <= p[2]
               /\ \A k \in p[1]..p[2] : text[k] # " "
               /\ (p[1] = 1 \/ text[p[1] - 1] = " ")
               /\ (p[2] = Len(text) \/ text[p[2] + 1] = " ")}}

(* both letters of a pair are the same up to case *)
SameLetter(c, d) ==
  \/ c = d
  \/ {c, d} = {"a", "A"}
  \/ {c, d} = {"b", "B"}

(* term occurs in title as a substring, case ignored *)
ContainsIgnoringCase(title, term) ==
  \E i \in 1..(Len(title) - Len(term) + 1) :
    \A k \in 1..Len(term) : SameLetter(title[i + k - 1], term[k])

Blank(text) == \A k \in 1..Len(text) : text[k] = " "

(* C11: for a text that is not blank, get_vacancies_with_keyword returns    *)
(* exactly the vacancies whose title contains every whitespace-separated    *)
(* term of the text as a case-insensitive literal substring; for a blank    *)
(* text it returns an empty list and issues no query.                       *)
C11_EveryTermIsLiteralSubstring ==
  (call.op = "get_vacancies_with_keyword" /\ call.fault = "none") =>
    IF Blank(call.arg)
      THEN ret = <<>> /\ log = <<>>
      ELSE LET matching == {v \in vacancies :
                              \A term \in Terms(call.arg) :
                                ContainsIgnoringCase(Chars(v.name), term)}
           IN /\ {ret[i] : i \in 1..Len(ret)} = {VacancyTuple(DB, v) : v \in matching}
              /\ Len(ret) = Cardinality(matching)

----------------------------------------------------------------------------
(* Properties of the salary range search *)

(* a bound that is there and is at least / at most n *)
AtLeast(bound, n) == bound # NULL /\ bound[1] >= n
AtMost(bound, n) == bound # NULL /\ bound[1] <= n

WithBound == {v \in vacancies : v.salary_from # NULL \/ v.salary_to # NULL}

(* rows lists each vacancy of S once, as the tuple of the result *)
ListsExactly(rows, S) ==
  /\ {rows[i] : i \in 1..Len(rows)} = {VacancyTuple(DB, v) : v \in S}
  /\ Len(rows) = Cardinality(S)

(* C12: get_vacancies_with_salary_range(min, None) returns exactly the      *)
(* vacancies with at least one salary bound for which salary_to >= min or   *)
(* salary_from >= min, a null bound never satisfying the comparison.        *)
C12_MinKeepsEitherBoundAtLeast ==
  (/\ call.op = "get_vacancies_with_salary_range"
   /\ call.fault = "none"
   /\ call.arg[1] # NULL
   /\ call.arg[2] = NULL) =>
    ListsExactly(ret, {v \in WithBound :
                         \/ AtLeast(v.salary_to, call.arg[1][1])
                         \/ AtLeast(v.salary_from, call.arg[1][1])})

(* the example of the specification: with min = 200, (null, 250) is         *)
(* returned and (100, 150) is not                                           *)
C12_Witness ==
  /\ call.op = "get_vacancies_with_salary_range"
  /\ call.fault = "none"
  /\ call.arg = <<Some(200), NULL>>
  /\ {<<v.salary_from, v.salary_to>> : v \in vacancies}
       = {<<NULL, Some(250)>>, <<Some(100), Some(150)>>}
  /\ Len(ret) = 1
  /\ <<ret[1][3], ret[1][4]>> = <<NULL, Some(250)>>

(* C13: get_vacancies_with_salary_range(None, max) returns exactly the      *)
(* vacancies with at least one salary bound for which salary_from <= max or *)
(* salary_to <= max or salary_from is null; so a vacancy without salary_from *)
(* is returned whatever its salary_to, and one without salary_to only if    *)
(* salary_from <= max.                                                      *)
C13_MaxKeepsNullSalaryFrom ==
  (/\ call.op = "get_vacancies_with_salary_range"
   /\ call.fault = "none"
   /\ call.arg[1] = NULL
   /\ call.arg[2] # NULL) =>
    /\ ListsExactly(ret, {v \in WithBound :
                            \/ AtMost(v.salary_from, call.arg[2][1])
                            \/ AtMost(v.salary_to, call.arg[2][1])
                            \/ v.salary_from = NULL})
    /\ \A v \in WithBound :
         LET returned == \E i \in 1..Len(ret) : ret[i] = VacancyTuple(DB, v)
         IN /\ v.salary_from = NULL => returned
            /\ v.salary_to = NULL => (returned <=> v.salary_from[1] <= call.arg[2][1])

(* with max = 200, (null, 250) is returned and (300, null) is not *)
C13_Witness ==
  /\ call.op = "get_vacancies_with_salary_range"
  /\ call.fault = "none"
  /\ call.arg = <<NULL, Some(200)>>
  /\ {<<v.salary_from, v.salary_to>> : v \in vacancies}
       = {<<NULL, Some(250)>>, <<Some(300), NULL>>}
  /\ Len(ret) = 1
  /\ <<ret[1][3], ret[1][4]>> = <<NULL, Some(250)>>

----------------------------------------------------------------------------
(* Properties of the counts per company *)

(* the vacancies of the employer with this name (names differ in the stores) *)
VacanciesOf(name) ==
  {v \in vacancies : \E e \in employers : e.name = name /\ e.employer_id = v.employer_id}

(* a percentage in hundredths *)
Hundredths(pct) == 100 * pct.whole + pct.cents

(* pct is count * 100 / total rounded to two decimals, a half rounded up *)
IsRounded(pct, count, total) ==
  /\ pct.cents \in 0..99
  /\ 2 * total * Hundredths(pct) <= 20000 * count + total
  /\ 20000 * count + total < 2 * total * Hundredths(pct) + 2 * total

RECURSIVE SumHundredths(_)
SumHundredths(rows) ==
  IF rows = <<>> THEN 0 ELSE Hundredths(rows[1][3]) + SumHundredths(Tail(rows))

TopCompaniesCall ==
  /\ call.op = "get_top_companies_by_vacancies"
  /\ call.fault = "none"
  /\ vacancies # {}

EachRowRounded ==
  \A i \in 1..Len(ret) :
    /\ ret[i][2] = Cardinality(VacanciesOf(ret[i][1]))
    /\ IsRounded(ret[i][3], ret[i][2], Cardinality(vacancies))

(* C14 as claimed: with N > 0 vacancies every row of                        *)
(* get_top_companies_by_vacancies carries round(count * 100 / N, 2), and    *)
(* the percentages of all employers sum to at most 100.                     *)
C14_PercentagesSumAtMost100 ==
  TopCompaniesCall =>
    /\ EachRowRounded
    /\ Len(ret) = Cardinality(employers) => SumHundredths(ret) <= 10000

(* C14 amended: every row carries round(count * 100 / N, 2), and the        *)
(* percentages of all E employers sum to at most 100 + 0.005 * E.           *)
C14_PercentagesSumWithinRounding ==
  TopCompaniesCall =>
    /\ EachRowRounded
    /\ Len(ret) = Cardinality(employers) =>
         2 * SumHundredths(ret) <= 20000 + Cardinality(employers)

(* counts 4, 1, 1 of 6 vacancies: 66.67 + 16.67 + 16.67 *)
C14_Witness ==
  /\ TopCompaniesCall
  /\ Cardinality(vacancies) = 6
  /\ Len(ret) = 3
  /\ ret[1][3] = Float(66, 67)
  /\ ret[2][3] = Float(16, 67)
  /\ ret[3][3] = Float(16, 67)

(* C15: get_companies_and_vacancies_count returns one row per stored        *)
(* employer, those without vacancies included (count 0), each count being   *)
(* the number of stored vacancies of that employer, the rows in             *)
(* non-increasing order of count.                                           *)
C15_OneRowPerEmployer ==
  (call.op = "get_companies_and_vacancies_count" /\ call.fault = "none") =>
    /\ Len(ret) = Cardinality(employers)
    /\ {ret[i][1] : i \in 1..Len(ret)} = {e.name : e \in employers}
    /\ \A i \in 1..Len(ret) : ret[i][2] = Cardinality(VacanciesOf(ret[i][1]))
    /\ \A i, j \in 1..Len(ret) : i < j => ret[i][2] >= ret[j][2]

(* three employers, one of them without vacancies, listed last with count 0 *)
C15_Witness ==
  /\ call.op = "get_companies_and_vacancies_count"
  /\ call.fault = "none"
  /\ Len(ret) = 3
  /\ ret[1][2] > ret[2][2]
  /\ ret[2][2] > 0
  /\ ret[3][2] = 0

----------------------------------------------------------------------------
(* Properties of the query engine as a whole *)

ListQueries ==
  {"get_companies_and_vacancies_count", "get_all_vacancies", "get_vacancies_with_keyword",
   "get_vacancies_with_salary_range", "get_top_companies_by_vacancies"}

QueryOps ==
  ListQueries \cup {"get_avg_salary", "get_vacancies_with_higher_salary", "get_statistics"}

StatisticsKeys ==
  {"total_vacancies", "total_companies", "vacancies_with_salary", "avg_salary",
   "top_positions", "top_companies"}

(* C16: a query operation whose connection cannot be opened or whose query  *)
(* fails returns its default and leaves the stored data as it was: a list   *)
(* query an empty list, get_avg_salary 0.0, get_statistics a dictionary     *)
(* (with 0.0 and an empty list where a nested call failed).                 *)
C16_FaultGivesDefault ==
  [][call'.op \in QueryOps =>
       /\ DB' = DB
       /\ (call'.op \in ListQueries /\ call'.fault # "none") => ret' = <<>>
       /\ (call'.op = "get_avg_salary" /\ call'.fault # "none") => ret' = Zero
       /\ (call'.op = "get_vacancies_with_higher_salary" /\ call'.fault # <<"none", "none">>)
            => ret' = <<>>
       /\ call'.op = "get_statistics" =>
            /\ DOMAIN ret' \subseteq StatisticsKeys
            /\ call'.fault[1] \in {"connect", "execute1"} => DOMAIN ret' = {}
            /\ (call'.fault[1] = "none" /\ schema # {}) =>
                 /\ DOMAIN ret' = StatisticsKeys
                 /\ call'.fault[2] # "none" => ret'.avg_salary = Zero
                 /\ call'.fault[3] # "none" => ret'.top_companies = <<>>]_vars

(* the query of get_all_vacancies failed on a store that holds vacancies *)
C16_Witness ==
  /\ call.op = "get_all_vacancies"
  /\ call.fault = "execute1"
  /\ log = <<"SELECT all vacancies">>
  /\ ret = <<>>
  /\ vacancies # {}

(* the rows of a list, as a set *)
Rows(list) == {list[i] : i \in 1..Len(list)}

SameRows(list, other) == Rows(list) = Rows(other)

(* two lists of rows <<name, count, ...>> cut off by a LIMIT agree in the   *)
(* counts row by row, and in every row above the count of the last          *)
SameUpToTies(list, other) ==
  /\ Len(list) = Len(other)
  /\ \A i \in 1..Len(list) : Tail(list[i]) = Tail(other[i])
  /\ \A i \in 1..Len(list) : list[i][2] > list[Len(list)][2] => list[i] \in Rows(other)

(* what the last call would return on the present store, for every physical *)
(* order of the rows; same(a, b) compares two top lists                     *)
Recomputed(same(_, _)) ==
  \A vorder \in EngineOrders, eorder \in PhysicalOrders(StoredEmployerIds) :
    CASE call.op = "get_companies_and_vacancies_count" ->
           Rows(ret) = Rows(get_companies_and_vacancies_count(DB, NewCall, "none", eorder).ret)
      [] call.op = "get_all_vacancies" ->
           Rows(ret) = Rows(get_all_vacancies(DB, NewCall, "none", vorder).ret)
      [] call.op = "get_avg_salary" ->
           ret = get_avg_salary(DB, NewCall, "none").ret
      [] call.op = "get_vacancies_with_higher_salary" ->
           Rows(ret) = Rows(get_vacancies_with_higher_salary(DB, NewCall, "none", "none",
                                                             vorder).ret)
      [] call.op = "get_vacancies_with_keyword" ->
           Rows(ret) = Rows(get_vacancies_with_keyword(DB, NewCall, call.arg, "none",
                                                       vorder).ret)
      [] call.op = "get_vacancies_with_salary_range" ->
           Rows(ret) = Rows(get_vacancies_with_salary_range(DB, NewCall, call.arg[1],
                                                            call.arg[2], "none", vorder).ret)
      [] call.op = "get_top_companies_by_vacancies" ->
           same(ret, get_top_companies_by_vacancies(DB, NewCall, call.arg, "none", eorder).ret)
      [] call.op = "get_statistics" ->
           LET other == get_statistics(DB, NewCall, "none", "none", "none", vorder, eorder).ret
           IN /\ DOMAIN ret = DOMAIN other
              /\ \A k \in DOMAIN ret :
                   IF k \in {"top_positions", "top_companies"}
                     THEN same(ret[k], other[k])
                     ELSE ret[k] = other[k]

FaultFree ==
  \/ call.op \in ListQueries \cup {"get_avg_salary"} /\ call.fault = "none"
  \/ call.op = "get_vacancies_with_higher_salary" /\ call.fault = <<"none", "none">>
  \/ call.op = "get_statistics" /\ call.fault = <<"none", "none", "none">>

RecomputedExactly == Recomputed(SameRows)

RecomputedUpToTies == Recomputed(SameUpToTies)

(* no query operation changes the stored employers or vacancies *)
ReadOnly ==
  [][call'.op \in QueryOps => (employers' = employers /\ vacancies' = vacancies)]_vars

(* C20 as claimed: no query operation changes the stored employers or       *)
(* vacancies, and after any sequence of calls the rows a call returned are  *)
(* the rows the same call returns on the store as it is, in whatever        *)
(* physical order the store keeps its rows.                                 *)
C20_ReadOnlyAndRecomputed ==
  ReadOnly /\ [](FaultFree => RecomputedExactly)

(* C20 amended: the same, except that a list cut off by a LIMIT (the result *)
(* of get_top_companies_by_vacancies, the top lists of get_statistics) is   *)
(* determined only up to the choice among the rows that tie with its last   *)
(* row.                                                                     *)
C20_ReadOnlyAndRecomputedUpToTies ==
  ReadOnly /\ [](FaultFree => RecomputedUpToTies)

(* both employers have one vacancy; the top 1 names the second employer *)
C20_Witness ==
  /\ call.op = "get_top_companies_by_vacancies"
  /\ call.arg = 1
  /\ call.fault = "none"
  /\ \A e \in employers : Cardinality({v \in vacancies : v.employer_id = e.employer_id}) = 1
  /\ Len(ret) = 1
  /\ ret[1][1] = "company-b"

----------------------------------------------------------------------------
(* Properties of the HeadHunter client *)

(* the requests among the entries of a log *)
Requests(l) ==
  SelectSeq(l, LAMBDA x : \E id \in EmployerIds :
                            \/ x = EmployerRequest(id)
                            \/ \E p \in 0..MaxPage : x = VacanciesRequest(id, p))

(* the ids of the vacancies a page of this kind lists and a parser that     *)
(* skips what it cannot parse keeps                                         *)
ParseableIds(kind, page) ==
  CASE kind \in {"good_more", "good_no_pages", "good_last", "good_null_pages"} ->
         <<ToString(2 * page + 1), ToString(2 * page + 2)>>
    [] kind \in {"malformed_more", "non_object_item_more"} -> <<ToString(2 * page + 2)>>
    [] OTHER -> << >>

(* those ids over the pages 0 .. n - 1 of an upstream, in upstream order *)
RECURSIVE IdsUpTo(_, _)
IdsUpTo(upstream, n) ==
  IF n = 0 THEN << >> ELSE IdsUpTo(upstream, n - 1) \o ParseableIds(upstream[n], n - 1)

RequestFailures == {"transport_error", "http_error"}

Exceptions == {"RequestException", "ValueError", "AttributeError", "TypeError"}

(* the last call raised *)
DidRaise == log # << >> /\ log[Len(log)] \in {Raised(e) : e \in Exceptions}

(* C17: when the request for page k fails, get_vacancies_by_employer does   *)
(* not raise, has requested the pages 0 .. k once each and nothing after    *)
(* the failure, and returns the parsed vacancies of the pages 0 .. k - 1 in *)
(* upstream order.                                                          *)
C17_FailedPageEndsPagination ==
  (call.op = "get_vacancies_by_employer"
     /\ call.arg.upstream[Len(call.arg.upstream)] \in RequestFailures) =>
    LET k == Len(call.arg.upstream) - 1
    IN /\ ~DidRaise
       /\ Requests(log) = [p \in 1..(k + 1) |-> VacanciesRequest(call.arg.employer_id, p - 1)]
       /\ log[Len(log)] = VacanciesRequest(call.arg.employer_id, k)
       /\ [i \in 1..Len(ret) |-> ret[i].v.id.v] = IdsUpTo(call.arg.upstream, k)
       /\ \A i \in 1..Len(ret) : ret[i].v.employer_id = JInt(call.arg.employer_id)

(* two pages were read, one of them with a malformed vacancy, and the third *)
(* request failed                                                           *)
C17_Witness ==
  /\ call.op = "get_vacancies_by_employer"
  /\ call.arg.upstream = <<"good_more", "malformed_more", "http_error">>
  /\ Len(ret) = 3
  /\ Len(Requests(log)) = 3

(* the responses whose only possible trouble is an item that cannot be      *)
(* parsed: the request succeeds and the body is a well-formed page          *)
WellFormedPages ==
  {"good_more", "malformed_more", "non_object_item_more", "empty", "good_no_pages", "good_last"}

(* C18: when every page served is well formed, whatever its items are,      *)
(* get_vacancies_by_employer does not raise, skips exactly the items that   *)
(* cannot be parsed, an item that is not an object included, and returns    *)
(* the parsed form of every other item in upstream order.                   *)
C18_MalformedItemIsSkipped ==
  (call.op = "get_vacancies_by_employer"
     /\ \A p \in 1..Len(call.arg.upstream) : call.arg.upstream[p] \in WellFormedPages) =>
    /\ ~DidRaise
    /\ [i \in 1..Len(ret) |-> ret[i].v.id.v] =
         IdsUpTo(call.arg.upstream, Len(call.arg.upstream))

(* C19: get_employer sends exactly one request, the GET of the employer,    *)
(* and when the transport fails or the status is not 2xx it returns None    *)
(* and raises nothing.                                                      *)
C19_OneRequestAndNoneOnFailure ==
  call.op = "get_employer" =>
    /\ Requests(log) = <<EmployerRequest(call.arg.employer_id)>>
    /\ log[1] = EmployerRequest(call.arg.employer_id)
    /\ call.arg.upstream[1] \in RequestFailures =>
         /\ ~DidRaise
         /\ log = <<EmployerRequest(call.arg.employer_id)>>
         /\ ret = JNull

(* the server answered 404 and the call returned None after its one request *)
C19_Witness ==
  /\ call.op = "get_employer"
  /\ call.arg.upstream = <<"http_error">>
  /\ log = <<EmployerRequest(call.arg.employer_id)>>
  /\ ret = JNull

(* the responses that carry a page of items: the request succeeded and the  *)
(* body is a JSON object                                                    *)
PagesOfItems == WellFormedPages \cup {"good_null_pages"}

(* the page count a response of this kind reports for the page asked for;   *)
(* 0 stands for no page count                                               *)
ReportedPages(kind, page) ==
  CASE kind \in {"good_more", "malformed_more", "non_object_item_more", "empty"} -> TotalPages
    [] kind = "good_last" -> page + 1
    [] OTHER -> 0

(* pagination is to stop after this page: it is empty or it is the last of  *)
(* the pages reported                                                       *)
StopsAfter(kind, page) == kind = "empty" \/ page >= ReportedPages(kind, page) - 1

(* C22: when every response carries a page of items, the pages are asked    *)
(* for in the order 0, 1, 2, ... once each, the call stops after the first  *)
(* page that is empty or is the last of the pages reported (a response      *)
(* without a page count is the last), and the items of every page read,     *)
(* the stopping page included, are returned.                                *)
C22_PagesInOrderUntilLast ==
  (call.op = "get_vacancies_by_employer"
     /\ \A p \in 1..Len(call.arg.upstream) : call.arg.upstream[p] \in PagesOfItems) =>
    LET n == Len(call.arg.upstream)
    IN /\ ~DidRaise
       /\ Requests(log) = [p \in 1..n |-> VacanciesRequest(call.arg.employer_id, p - 1)]
       /\ StopsAfter(call.arg.upstream[n], n - 1)
       /\ \A p \in 1..(n - 1) : ~StopsAfter(call.arg.upstream[p], p - 1)
       /\ [i \in 1..Len(ret) |-> ret[i].v.id.v] = IdsUpTo(call.arg.upstream, n)

IsRequest(entry) == Requests(<<entry>>) # << >>

IsDelay(entry) == entry \in {"sleep 0.1", "sleep 0.05"}

(* C25: in the log of a call of get_vacancies_by_employer or of             *)
(* get_multiple_employers a delay lies between every two requests.          *)
C25_DelayBetweenRequests ==
  call.op \in {"get_vacancies_by_employer", "get_multiple_employers"} =>
    \A i, j \in 1..Len(log) :
      (i < j /\ IsRequest(log[i]) /\ IsRequest(log[j])) =>
        \E k \in (i + 1)..(j - 1) : IsDelay(log[k])

(* a batch of two employers: two requests and the pause between them *)
C25_Witness ==
  /\ call.op = "get_multiple_employers"
  /\ call.arg.employer_ids = <<1, 2>>
  /\ Len(Requests(log)) = 2
  /\ log[2] = "sleep 0.05"
  /\ IsRequest(log[3])

(* the 2xx responses whose body is an employer object, whatever fields it   *)
(* lacks or carries as null                                                 *)
EmployerBodies ==
  {"employer", "employer_long_description", "employer_null_description", "employer_empty"}

(* C28: on a 2xx response with an employer object get_employer does not     *)
(* raise and returns a record whose description is a string of at most 500  *)
(* characters, and get_multiple_employers returns an entry for exactly the  *)
(* requested ids whose fetch succeeded.                                     *)
C28_EmployerNeverRaisesOn2xx ==
  /\ (call.op = "get_employer" /\ call.arg.upstream[1] \in EmployerBodies) =>
       /\ ~DidRaise
       /\ ret.t = "obj"
       /\ ret.v.description.t = "str"
       /\ ret.v.description.len <= 500
  /\ call.op = "get_multiple_employers" =>
       /\ ~DidRaise
       /\ DOMAIN ret.v = {call.arg.employer_ids[i] :
                            i \in {j \in 1..Len(call.arg.upstream) :
                                     call.arg.upstream[j] \in EmployerBodies}}

----------------------------------------------------------------------------
(* Properties of the parser *)

(* the field is missing from the raw vacancy or null in it *)
MissingOrNull(payload, key) == key \notin DOMAIN payload.v \/ payload.v[key] = [t |-> "null"]

(* the field of a sub-object, None when the sub-object does not carry it *)
Bound(salary, key) == IF key \in DOMAIN salary.v THEN salary.v[key] ELSE [t |-> "null"]

Placeholder == [t |-> "str", v |-> "Ne ukazan", len |-> 9]

(* C24: a raw vacancy whose experience, employment, schedule or snippet is  *)
(* missing or null is parsed; the experience, employment or schedule of the *)
(* result is then the placeholder, requirements and responsibility are      *)
(* empty strings when it is the snippet; a missing, null or empty salary    *)
(* gives three Nones and the bounds of any other salary are passed through. *)
C24_SubObjectsReadDefensively ==
  (call.op = "_parse_vacancy" /\ call.arg.raw.t = "obj") =>
    LET payload == call.arg.raw
        none == [t |-> "null"]
    IN /\ (\E key \in {"experience", "employment", "schedule", "snippet"} :
              MissingOrNull(payload, key)) => (~DidRaise /\ ret.t = "obj")
       /\ \A key \in {"experience", "employment", "schedule"} :
            MissingOrNull(payload, key) => ret.v[key] = Placeholder
       /\ MissingOrNull(payload, "snippet") =>
            /\ ret.v.requirements = [t |-> "str", v |-> "", len |-> 0]
            /\ ret.v.responsibility = [t |-> "str", v |-> "", len |-> 0]
       /\ IF MissingOrNull(payload, "salary") \/ DOMAIN payload.v.salary.v = {}
            THEN /\ ret.v.salary_from = none
                 /\ ret.v.salary_to = none
                 /\ ret.v.currency = none
            ELSE /\ ret.v.salary_from = Bound(payload.v.salary, "from")
                 /\ ret.v.salary_to = Bound(payload.v.salary, "to")
                 /\ ret.v.currency = Bound(payload.v.salary, "currency")

(* experience is null and employment is missing: both are the placeholder   *)
(* in the vacancy parsed                                                    *)
C24_Witness ==
  /\ call.op = "_parse_vacancy"
  /\ call.arg.raw.t = "obj"
  /\ "experience" \in DOMAIN call.arg.raw.v
  /\ call.arg.raw.v.experience = [t |-> "null"]
  /\ "employment" \notin DOMAIN call.arg.raw.v
  /\ ret.t = "obj"
  /\ ret.v.experience = Placeholder
  /\ ret.v.employment = Placeholder

(* C29: every record _parse_vacancy returns carries the employer id passed  *)
(* by the caller and a name, experience, employment and schedule that are   *)
(* not null, whatever the raw vacancy carries in these fields.              *)
C29_ParsedVacancyIsFullyDefaulted ==
  (call.op = "_parse_vacancy" /\ ~DidRaise /\ ret.t = "obj") =>
    /\ ret.v.employer_id = [t |-> "int", v |-> call.arg.employer_id]
    /\ \A key \in {"name", "experience", "employment", "schedule"} : ret.v[key].t # "null"

----------------------------------------------------------------------------
(* Properties of the loop of get_vacancies_by_employer *)

Max(a, b) == IF a >= b THEN a ELSE b

(* the page count the response served to the request for page p reported *)
Reported(upstream, p) ==
  IF upstream[p + 1] \in VacancyResponseKinds
    THEN ReportedPages(upstream[p + 1], p)
    ELSE CHOOSE n \in 0..TotalPages : upstream[p + 1] = CountedPage(n)

(* the largest page count among the responses served *)
LargestReported(upstream) ==
  CHOOSE P \in 0..TotalPages :
    /\ \A p \in 0..(Len(upstream) - 1) : Reported(upstream, p) <= P
    /\ P = 0 \/ \E p \in 0..(Len(upstream) - 1) : Reported(upstream, p) = P

(* every iteration made one request, for the page after the one before, and *)
(* no more iterations were made than the upstream reported pages            *)
OneRequestPerPage ==
  call.op = "get_vacancies_by_employer" =>
    LET n == Len(call.arg.upstream)
    IN /\ Requests(log) = [p \in 1..n |-> VacanciesRequest(call.arg.employer_id, p - 1)]
       /\ call.arg.page = IF call.arg.pc = "loop" THEN n ELSE n - 1
       /\ n <= Max(1, LargestReported(call.arg.upstream))

Ended == call.arg.pc \in {"return", "raise"}

(* C26: with an upstream that reports at most P pages the call ends, every  *)
(* iteration of its loop either leaves the loop or moves to the next page,  *)
(* and at most max(1, P) requests are made.                                 *)
C26_Terminates == []OneRequestPerPage /\ <>Ended

(* the call returned after as many requests as the upstream reports pages *)
C26_Witness ==
  /\ call.op = "get_vacancies_by_employer"
  /\ call.arg.pc = "return"
  /\ Len(Requests(log)) = TotalPages
  /\ Len(ret) = 2 * TotalPages

----------------------------------------------------------------------------
(* Properties of the salary range search taken as a whole *)

(* what the search returns on the store as it is, for these bounds *)
RangeSearch(min_salary, max_salary) ==
  get_vacancies_with_salary_range(DB, NewCall, min_salary, max_salary, "none",
                                  [x \in RangeVacancyIds |-> x]).ret

(* COALESCE(salary_from, salary_to, 0) of a row of the result *)
SortKey(row) == IF row[3] # NULL THEN row[3][1] ELSE IF row[4] # NULL THEN row[4][1] ELSE 0

(* C23: the rows of get_vacancies_with_salary_range(min, max) are exactly   *)
(* the rows returned both for (min, None) and for (None, max), each once;   *)
(* without bounds they are the vacancies with at least one salary bound;    *)
(* and they come in non-increasing order of                                 *)
(* coalesce(salary_from, salary_to, 0).                                     *)
C23_RangeFiltersComposeWithAnd ==
  (call.op = "get_vacancies_with_salary_range" /\ call.fault = "none") =>
    /\ Rows(ret) = Rows(RangeSearch(call.arg[1], NULL)) \cap Rows(RangeSearch(NULL, call.arg[2]))
    /\ Cardinality(Rows(ret)) = Len(ret)
    /\ (call.arg[1] = NULL /\ call.arg[2] = NULL) => ListsExactly(ret, WithBound)
    /\ \A i, j \in 1..Len(ret) : i < j => SortKey(ret[i]) >= SortKey(ret[j])

(* min = 200 and max = 300 on the vacancies (null, 250) and (100, 150):     *)
(* the maximum alone keeps both, the minimum removes the second             *)
C23_Witness ==
  /\ call.op = "get_vacancies_with_salary_range"
  /\ call.fault = "none"
  /\ call.arg = <<Some(200), Some(300)>>
  /\ Len(ret) = 1
  /\ <<ret[1][3], ret[1][4]>> = <<NULL, Some(250)>>
  /\ Len(RangeSearch(NULL, Some(300))) = 2
  /\ Len(RangeSearch(Some(200), NULL)) = 1

----------------------------------------------------------------------------
(* Properties of the two company reports taken together *)

(* what get_companies_and_vacancies_count returns on the store as it is *)
CompaniesReport ==
  get_companies_and_vacancies_count(DB, NewCall, "none",
                                    [x \in 1..MaxCountedEmployers |-> x]).ret

Min(a, b) == IF a <= b THEN a ELSE b

(* get_top_companies_by_vacancies(limit) was called and the store answered  *)
TopCompaniesServed ==
  /\ call.op = "get_top_companies_by_vacancies"
  /\ call.fault = "none"

(* the top list has min(limit, employers) rows, each (name, count) pair is  *)
(* a pair of the full report, and the counts are those of its first rows    *)
AgreesWithCompaniesReport ==
  /\ Len(ret) = Min(call.arg, Cardinality(employers))
  /\ Len(ret) <= Len(CompaniesReport)
  /\ \A i \in 1..Len(ret) :
       /\ <<ret[i][1], ret[i][2]>> \in Rows(CompaniesReport)
       /\ ret[i][2] = CompaniesReport[i][2]
  /\ Cardinality({ret[i][1] : i \in 1..Len(ret)}) = Len(ret)

(* C27: on every store state where the store is reachable,                  *)
(* get_top_companies_by_vacancies(limit) returns min(limit, number of       *)
(* employers) rows carrying the (name, count) pairs of                      *)
(* get_companies_and_vacancies_count, also when employers are stored and    *)
(* no vacancy is.                                                           *)
C27_TopCompaniesAgreeWithCounts ==
  TopCompaniesServed => AgreesWithCompaniesReport

----------------------------------------------------------------------------
(* Properties of a query running beside another client *)

(* what the running call returns when it runs alone on the store with       *)
(* these vacancies                                                          *)
ResultsOn(stored) ==
  LET db == [schema |-> schema, employers |-> employers, vacancies |-> stored]
  IN IF call.op = "get_vacancies_with_higher_salary"
       THEN {get_vacancies_with_higher_salary(db, NewCall, "none", "none", vorder).ret :
               vorder \in PhysicalOrders(InterleavedIds)}
       ELSE {get_statistics(db, NewCall, "none", "none", "none", o[1], o[2]).ret :
               o \in PhysicalOrders(InterleavedIds) \X PhysicalOrders(StoredEmployerIds)}

(* the call has returned *)
Returned == call.pc = "return"

(* the result is the result on one of the stores committed during the call *)
FromOneCommittedState ==
  \E k \in 1..Len(call.committed) : ret \in ResultsOn(call.committed[k])

(* C21: when another client commits between the statements of one           *)
(* get_vacancies_with_higher_salary or get_statistics call, the result is   *)
(* still the result of that query on a single committed store state.        *)
C21_QueryReadsOneCommittedState ==
  Returned => FromOneCommittedState

====
